---- MODULE Spec2Model ----
(***************************************************************************)
(* Model of the streaming response handlers of the OpenAI large language   *)
(* model plugin (models/openai/models/llm/llm.py):                         *)
(*   _handle_chat_generate_stream_response   (chat stream aggregator)      *)
(*   _handle_generate_stream_response        (completion stream handler)   *)
(* of the token estimator and message codec (_num_tokens_from_messages,    *)
(* _convert_prompt_message_to_dict) and of the invocation dispatcher       *)
(* (_invoke, _chat_generate, _generate, _chat_generate_o3_pro),            *)
(* together with the helpers they call.  Each handler is a Python          *)
(* generator: its locals live in a frame that is private to one            *)
(* invocation, it consumes one upstream fragment per loop iteration and    *)
(* suspends at every yield.                                                *)
(*                                                                         *)
(* Optional values (Python None) are sequences of length <= 1:             *)
(* None is << >>, a present value v is << v >>.  Strings are TLA+ strings. *)
(***************************************************************************)
EXTENDS Integers, Sequences, FiniteSets, TLC

\* ------------------------------------------------------------------ bounds

\* Longest fragment sequence an upstream delivers to one invocation.
MaxFrags == 3

\* Longest fragment sequence per invocation when two invocations interleave.
MaxFragsTwo == 2

\* Most calls of the token estimator in one behaviour.
MaxCalls == 3

\* ------------------------------------------------------- optional values

None == << >>

Some(v) == << v >>

\* Python truthiness of an optional string: neither None nor "".
Truthy(o) == o # None /\ o[1] # ""

\* `o or ""` on an optional string.
OrEmpty(o) == IF Truthy(o) THEN o[1] ELSE ""

\* str.startswith
StartsWith(s, p) == Len(s) >= Len(p) /\ SubSeq(s, 1, Len(p)) = p

\* Result of a step that may raise.
Ok(v) == [raised |-> FALSE, value |-> v]

Raised(v) == [raised |-> TRUE, value |-> v]

\* ------------------------------------------------------------ wire records

\* ChoiceDeltaFunctionCall / ToolCallFunction delta: optional name, arguments.
Fn(name, arguments) == [name |-> name, arguments |-> arguments]

\* ChoiceDeltaToolCall.
TC(index, id, type, function) ==
    [index |-> index, id |-> id, type |-> type, function |-> function]

\* ChatCompletionChunk / Completion fragment, with the first choice flattened:
\* nchoices = len(chunk.choices); content is delta.content (chat) or
\* delta.text (completion).
Frag(nchoices, usage, finish_reason, content, tool_calls, function_call) ==
    [nchoices |-> nchoices, usage |-> usage, finish_reason |-> finish_reason,
     content |-> content, tool_calls |-> tool_calls,
     function_call |-> function_call]

WireUsage(p, c) == [prompt_tokens |-> p, completion_tokens |-> c]

\* ------------------------------------------------------------ result records

\* AssistantPromptMessage.ToolCall
ToolCall(id, type, name, arguments) ==
    [id |-> id, type |-> type,
     function |-> [name |-> name, arguments |-> arguments]]

\* LLMResultChunk, reduced to delta.message.content, delta.message.tool_calls,
\* delta.finish_reason and delta.usage.
Chunk(content, tool_calls, finish_reason, usage) ==
    [content |-> content, tool_calls |-> tool_calls,
     finish_reason |-> finish_reason, usage |-> usage]

\* ------------------------------------------------------------ string helpers

\* str.find(sub, start): the first position >= from where sub occurs in s,
\* 0 when there is none.
RECURSIVE Find(_, _, _)
Find(s, sub, from) ==
    IF from + Len(sub) - 1 > Len(s) THEN 0
    ELSE IF SubSeq(s, from, from + Len(sub) - 1) = sub THEN from
    ELSE Find(s, sub, from + 1)

\* s.split(sep)[1]: the text between the first occurrence of sep and the
\* next one (or the end); IndexError when sep does not occur.
SplitSecond(s, sep) ==
    LET first == Find(s, sep, 1)
        start == first + Len(sep)
        next  == IF first = 0 THEN 0 ELSE Find(s, sep, start)
    IN IF first = 0 THEN Raised("IndexError")
       ELSE IF next = 0 THEN Ok(SubSeq(s, start, Len(s)))
       ELSE Ok(SubSeq(s, start, next - 1))

\* ------------------------------------------------------------ message codec

\* A PromptMessage.  role names the subclass ("user", "assistant", "system",
\* "tool"; any other value is a subclass the codec does not know).  The
\* content is the string content when parts = None and the list parts[1] of
\* content parts otherwise.
PromptMessage(role, content, parts, name, tool_calls, tool_call_id) ==
    [role |-> role, content |-> content, parts |-> parts, name |-> name,
     tool_calls |-> tool_calls, tool_call_id |-> tool_call_id]

\* A content part: type "text", "image", "audio" or "document"; data is the
\* text, the image url or the audio data URI.
ContentPart(type, data) == [type |-> type, data |-> data]

\* A sub-record of a list content: text holds the "text" of a text record,
\* payload the image url or the base64 audio data of the other records.
SubMessage(type, text, payload) ==
    [type |-> type, text |-> text, payload |-> payload]

\* Lines 1252-1284: the sub-records of a list content, in order.  A part that
\* is neither text, image nor audio produces no sub-record.
RECURSIVE SubMessages(_)
SubMessages(parts) ==
    IF parts = << >> THEN Ok(<< >>)
    ELSE LET p == Head(parts)
             rest == SubMessages(Tail(parts))
             payload == SplitSecond(p.data, ";base64,")
         IN IF p.type = "audio" /\ payload.raised THEN payload
            ELSE IF rest.raised THEN rest
            ELSE IF p.type = "text"
                 THEN Ok(<< SubMessage("text", p.data, "") >> \o rest.value)
            ELSE IF p.type = "image"
                 THEN Ok(<< SubMessage("image_url", "", p.data) >> \o rest.value)
            ELSE IF p.type = "audio"
                 THEN Ok(<< SubMessage("input_audio", "", payload.value) >>
                         \o rest.value)
            ELSE rest

\* Lines 1293-1303: the wire form of the tool calls of an assistant message.
RECURSIVE WireToolCalls(_)
WireToolCalls(tool_calls) ==
    IF tool_calls = << >> THEN << >>
    ELSE LET tc == Head(tool_calls)
         IN << [id |-> tc.id,
                type |-> IF tc.type = "" THEN "function" ELSE tc.type,
                function |-> [name |-> tc.function.name,
                              arguments |-> tc.function.arguments]] >>
            \o WireToolCalls(Tail(tool_calls))

\* The dict built by _convert_prompt_message_to_dict.  A key the dict lacks
\* is None here; the value of "content" is the string content, or the list
\* sub_messages[1] of sub-records when sub_messages is set, or the list
\* content_parts[1] of content part objects when content_parts is set.
MessageDict(role, content, sub_messages, tool_calls, tool_call_id) ==
    [role |-> role, content |-> content, sub_messages |-> sub_messages,
     content_parts |-> None,
     tool_calls |-> tool_calls, tool_call_id |-> tool_call_id, name |-> None]

\* Lines 1287, 1305 and 1309 ("content": message.content): the content of
\* an assistant, system or tool message goes into the dict as it is, a
\* list of content parts as the list of the part objects themselves.
WithContentOf(message, message_dict) ==
    IF message.parts = None
    THEN [message_dict EXCEPT !.content = message.content]
    ELSE [message_dict EXCEPT !.content = "",
                              !.content_parts = Some(message.parts[1])]

\* Mutant of AttachName: the name is attached for every role.
AttachName_always(message, message_dict) ==
    IF Truthy(message.name)
    THEN [message_dict EXCEPT !.name = Some(message.name[1])]
    ELSE message_dict

\* Lines 1317-1318: the name is attached unless the record's role is "tool".
AttachName(message, message_dict) ==
    IF Truthy(message.name) /\ message_dict.role # "tool"
    THEN [message_dict EXCEPT !.name = Some(message.name[1])]
    ELSE message_dict

\* _convert_prompt_message_to_dict
ConvertPromptMessageToDict(message) ==
    IF message.role = "user"
    THEN IF message.parts = None
         THEN Ok(AttachName(message,
                  MessageDict("user", message.content, None, None, None)))
         ELSE LET sub == SubMessages(message.parts[1])
              IN IF sub.raised THEN sub
                 ELSE Ok(AttachName(message,
                          MessageDict("user", "", Some(sub.value), None, None)))
    ELSE IF message.role = "assistant"
    THEN Ok(AttachName(message, WithContentOf(message,
             MessageDict("assistant", "", None,
                 IF message.tool_calls # << >>
                 THEN Some(WireToolCalls(message.tool_calls)) ELSE None,
                 None))))
    ELSE IF message.role = "system"
    THEN Ok(AttachName(message, WithContentOf(message,
             MessageDict("system", "", None, None, None))))
    ELSE IF message.role = "tool"
    THEN Ok(AttachName(message, WithContentOf(message,
             MessageDict("tool", "", None, None, message.tool_call_id))))
    ELSE Raised("ValueError")

\* ---------------------------------------------------------- token estimator

\* len(encoding.encode(text)): the tokenizer is the external tiktoken
\* library; it is abstracted to one token per character.
Enc(text) == Len(text)

\* Lines 1355-1356: a fine-tuned model name "ft:<base>:..." stands for its
\* base model.
FineTuneBase(model) ==
    IF StartsWith(model, "ft:") THEN SplitSecond(model, ":").value ELSE model

\* The model identity after fine-tune normalization and family aliasing
\* (lines 1355-1360).
NormalizedModel(model) ==
    LET base == FineTuneBase(model)
    IN IF base = "chatgpt-4o-latest"
          \/ StartsWith(base, "o1") \/ StartsWith(base, "o3")
          \/ StartsWith(base, "o4") \/ StartsWith(base, "gpt-4.1")
          \/ StartsWith(base, "gpt-4.5")
       THEN "gpt-4o"
       ELSE base

\* Mutant of SupportedModel: a model of no known family falls back to the
\* constants of the current convention.
SupportedModel_fallback(model) == TRUE

\* The family has a known per-message accounting convention
\* (otherwise _num_tokens_from_messages raises NotImplementedError).

SupportedModel(model) ==
    LET m == NormalizedModel(model)
    IN StartsWith(m, "gpt-3.5-turbo") \/ StartsWith(m, "gpt-4")
       \/ StartsWith(m, "o1") \/ StartsWith(m, "o3") \/ StartsWith(m, "o4")

TokensPerMessage(model) ==
    IF StartsWith(NormalizedModel(model), "gpt-3.5-turbo-0301") THEN 4 ELSE 3

\* Mutant of TokensPerName: the name surcharge is +1 for every family.
TokensPerName_positive(model) == 1

TokensPerName(model) ==
    IF StartsWith(NormalizedModel(model), "gpt-3.5-turbo-0301") THEN -1 ELSE 1

\* Tokens of one entry of message_dict["tool_calls"]: keys id, type, function.
ToolCallTokens(tc) ==
    (Enc("id") + Enc("id") + Enc(tc.id))
    + (Enc("type") + Enc("type") + Enc(tc.type))
    + (Enc("function")
       + Enc("name") + Enc(tc.function.name)
       + Enc("arguments") + Enc(tc.function.arguments))

RECURSIVE ToolCallsTokens(_)
ToolCallsTokens(tcs) ==
    IF tcs = << >> THEN 0
    ELSE ToolCallTokens(Head(tcs)) + ToolCallsTokens(Tail(tcs))

\* Mutant of TextOfList: the data of every item is counted.
RECURSIVE TextOfList_allParts(_)
TextOfList_allParts(value) ==
    IF value = << >> THEN ""
    ELSE Head(value).text \o Head(value).payload
         \o TextOfList_allParts(Tail(value))

\* Lines 1398-1404: a list value is replaced by the concatenated text of
\* its items of type "text" before the key is looked at.
RECURSIVE TextOfList(_)
TextOfList(value) ==
    IF value = << >> THEN ""
    ELSE (IF Head(value).type = "text" THEN Head(value).text ELSE "")
         \o TextOfList(Tail(value))

\* Lines 1398-1407 for the key "tool_calls": the list is filtered like any
\* list value. A wire tool call whose type is "text" is read for its
\* "text", a key it lacks: KeyError. A list without such an item becomes
\* the empty text, and the loop of lines 1407-1416 iterates over no tool
\* call.
ToolCallsAfterTextFilter(tool_calls) ==
    IF \E k \in 1..Len(tool_calls) : tool_calls[k].type = "text"
    THEN Raised("KeyError")
    ELSE Ok(<< >>)

\* Lines 1398-1404 for the key "content": the text counted for the value.
\* A list of content part objects holds no dict, so its text is empty.
ContentText(message) ==
    IF message.sub_messages # None THEN TextOfList(message.sub_messages[1])
    ELSE IF message.content_parts # None THEN ""
    ELSE message.content

\* Lines 1390-1421: the tokens of one message_dict, or the error raised
\* while its values are read.
MessageTokens(model, message) ==
    LET filtered == IF message.tool_calls = None THEN Ok(<< >>)
                    ELSE ToolCallsAfterTextFilter(message.tool_calls[1])
    IN IF filtered.raised THEN filtered
       ELSE Ok(TokensPerMessage(model)
               + Enc(message.role)
               + Enc(ContentText(message))
               + ToolCallsTokens(filtered.value)
               + (IF message.tool_call_id # None
                  THEN Enc(message.tool_call_id[1]) ELSE 0)
               + (IF message.name # None
                  THEN Enc(message.name[1]) + TokensPerName(model) ELSE 0))

\* Lines 1389-1421 over the whole list, message after message; the
\* messages are ones the codec converts.
RECURSIVE MessagesTokens(_, _)
MessagesTokens(model, messages) ==
    IF messages = << >> THEN Ok(0)
    ELSE LET first == MessageTokens(model,
                          ConvertPromptMessageToDict(Head(messages)).value)
             rest == MessagesTokens(model, Tail(messages))
         IN IF first.raised THEN first
            ELSE IF rest.raised THEN rest
            ELSE Ok(first.value + rest.value)

\* The first error raised by the codec over the list (line 1389), if any.
RECURSIVE ConvertError(_)
ConvertError(messages) ==
    IF messages = << >> THEN Ok(<< >>)
    ELSE LET d == ConvertPromptMessageToDict(Head(messages))
         IN IF d.raised THEN d ELSE ConvertError(Tail(messages))

\* ------------------------------------------------------- tool declarations

\* PromptMessageTool: parameters is the JSON-schema dict, with optional
\* title, properties (a list of [key, fields]) and required; a field of a
\* property is [field_key, field_value, enum], enum being the items when
\* field_key = "enum".
PromptMessageTool(name, description, title, type, properties, required) ==
    [name |-> name, description |-> description,
     parameters |-> [title |-> title, type |-> type,
                     properties |-> properties, required |-> required]]

Field(field_key, field_value, enum) ==
    [field_key |-> field_key, field_value |-> field_value, enum |-> enum]

\* Lines 1465-1467 and 1473-1475: 3 tokens per item plus the item.
RECURSIVE ItemsTokens(_)
ItemsTokens(items) ==
    IF items = << >> THEN 0
    ELSE 3 + Enc(Head(items)) + ItemsTokens(Tail(items))

\* Lines 1462-1470
RECURSIVE FieldsTokens(_)
FieldsTokens(fields) ==
    IF fields = << >> THEN 0
    ELSE LET f == Head(fields)
         IN Enc(f.field_key)
            + (IF f.field_key = "enum" THEN ItemsTokens(f.enum)
               ELSE Enc(f.field_key) + Enc(f.field_value))
            + FieldsTokens(Tail(fields))

\* Lines 1460-1470
RECURSIVE PropertiesTokens(_)
PropertiesTokens(properties) ==
    IF properties = << >> THEN 0
    ELSE Enc(Head(properties).key) + FieldsTokens(Head(properties).fields)
         + PropertiesTokens(Tail(properties))

\* Lines 1443-1475: the tokens of one tool.
ToolTokens(tool) ==
    LET parameters == tool.parameters
    IN Enc("type") + Enc("function")
       + Enc("name") + Enc(tool.name)
       + Enc("description") + Enc(tool.description)
       + Enc("parameters")
       + (IF parameters.title # None
          THEN Enc("title") + Enc(parameters.title[1]) ELSE 0)
       + Enc("type") + Enc(parameters.type)
       + (IF parameters.properties # None
          THEN Enc("properties") + PropertiesTokens(parameters.properties[1])
          ELSE 0)
       + (IF parameters.required # None
          THEN Enc("required") + ItemsTokens(parameters.required[1])
          ELSE 0)

\* _num_tokens_for_tools
RECURSIVE NumTokensForTools(_)
NumTokensForTools(tools) ==
    IF tools = << >> THEN 0
    ELSE ToolTokens(Head(tools)) + NumTokensForTools(Tail(tools))

\* Line 1424: every reply is primed with 3 tokens.
ReplyPriming == 3

\* Line 1424: the reply priming is added to the count of the messages.
WithReplyPriming(counted) ==
    IF counted.raised THEN counted ELSE Ok(counted.value + ReplyPriming)

\* Mutant of NumTokensFromMessages: the reply priming is forgotten.
NumTokensFromMessages_noPriming(model, messages) ==
    IF ~SupportedModel(model) THEN Raised("NotImplementedError")
    ELSE IF ConvertError(messages).raised THEN ConvertError(messages)
    ELSE MessagesTokens(model, messages)

\* _num_tokens_from_messages without tools: the integer returned or the
\* error raised. The model is looked at first (lines 1371-1387), then every
\* message goes through the codec (line 1389), then the records are
\* counted (lines 1390-1421) and the reply priming is added (line 1424).
NumTokensFromMessages(model, messages) ==
    IF ~SupportedModel(model) THEN Raised("NotImplementedError")
    ELSE IF ConvertError(messages).raised THEN ConvertError(messages)
    ELSE WithReplyPriming(MessagesTokens(model, messages))

\* Lines 1426-1427: the tools are counted last.
WithToolTokens(counted, tools) ==
    IF counted.raised THEN counted
    ELSE Ok(counted.value + NumTokensForTools(tools))

\* _num_tokens_from_messages(model, messages, tools): the integer returned
\* or the error raised.
NumTokensFromMessagesWithTools(model, messages, tools) ==
    WithToolTokens(NumTokensFromMessages(model, messages), tools)

\* _num_tokens_from_string: never raises.
NumTokensFromString(model, text) == Enc(text)

\* _calc_response_usage (base class): the usage record built from the counts.
CalcResponseUsage(prompt_tokens, completion_tokens) ==
    [prompt_tokens |-> prompt_tokens, completion_tokens |-> completion_tokens,
     total_tokens |-> prompt_tokens + completion_tokens]

UserPromptMessage(content) ==
    PromptMessage("user", content, None, None, << >>, None)

\* The caller's prompt messages of every modelled streaming invocation.
PromptMessages == << UserPromptMessage("hi") >>

\* AssistantPromptMessage(content=..., tool_calls=...)
AssistantPromptMessage(content, tool_calls) ==
    PromptMessage("assistant", content, None, None, tool_calls, None)

\* Line 1389 (and 752): every message of the list through the codec.
RECURSIVE ConvertAll(_)
ConvertAll(messages) ==
    IF messages = << >> THEN << >>
    ELSE << ConvertPromptMessageToDict(Head(messages)) >>
         \o ConvertAll(Tail(messages))

\* ------------------------------------------------------------- dispatcher

\* Line 752: the wire records of messages the codec converts.
RECURSIVE WireMessages(_)
WireMessages(messages) ==
    IF messages = << >> THEN << >>
    ELSE << ConvertPromptMessageToDict(Head(messages)).value >>
         \o WireMessages(Tail(messages))

\* The caller's model_parameters dict: a key the dict lacks is None.
\* response_format is a string, tagged "str", or a dict, tagged "dict":
\* the dict {"type": type} or {"type": type, "json_schema": json_schema},
\* with `wrapped` further {"type": ...} dicts around it.
ModelParameters(response_format, json_schema, max_tokens, max_completion_tokens, tool_choice) ==
    [response_format |-> response_format, json_schema |-> json_schema,
     max_tokens |-> max_tokens,
     max_completion_tokens |-> max_completion_tokens,
     max_output_tokens |-> None, tool_choice |-> tool_choice]

FormatName(name) ==
    [kind |-> "str", type |-> name, json_schema |-> None, wrapped |-> 0]

FormatDict(type, json_schema) ==
    [kind |-> "dict", type |-> type, json_schema |-> json_schema, wrapped |-> 0]

\* Line 676: the test `response_format == "json_schema"` compares the value,
\* so only the string is equal.
IsJsonSchemaName(response_format) ==
    response_format.kind = "str" /\ response_format.type = "json_schema"

\* Line 675: `if response_format:`; a string is truthy when not empty, the
\* dicts above always.
FormatTruthy(response_format) ==
    response_format # None
    /\ (response_format[1].kind = "dict" \/ response_format[1].type # "")

\* Line 688: {"type": response_format}, whatever the value is.
TypeDict(response_format) ==
    IF response_format.kind = "str" THEN FormatDict(response_format.type, None)
    ELSE [response_format EXCEPT !.wrapped = @ + 1]

\* json.loads: the texts that parse, among those the callers supply.
JsonTexts == { "{}", "[1]" }

JsonLoads(text) ==
    IF text \in JsonTexts THEN Ok([parsed |-> text]) ELSE Raised("JSONDecodeError")

\* Lines 675-690: the response format of a chat request.
ResponseFormat_lenient(model_parameters) ==
    LET response_format == model_parameters.response_format
    IN IF FormatTruthy(response_format)
       THEN IF IsJsonSchemaName(response_format[1])
            THEN Ok([model_parameters EXCEPT
                       !.json_schema = None,
                       !.response_format =
                          Some(FormatDict("json_schema",
                                          model_parameters.json_schema))])
            ELSE Ok([model_parameters EXCEPT
                       !.response_format = Some(TypeDict(response_format[1]))])
       ELSE Ok([model_parameters EXCEPT !.json_schema = None])

ResponseFormat(model_parameters) ==
    LET response_format == model_parameters.response_format
        json_schema == model_parameters.json_schema
    IN IF FormatTruthy(response_format)
       THEN IF IsJsonSchemaName(response_format[1])
            THEN IF ~Truthy(json_schema) THEN Raised("ValueError")
                 ELSE IF JsonLoads(json_schema[1]).raised
                      THEN Raised("ValueError")
                 ELSE Ok([model_parameters EXCEPT
                            !.json_schema = None,
                            !.response_format =
                               Some(FormatDict("json_schema",
                                    Some(JsonLoads(json_schema[1]).value)))])
            ELSE Ok([model_parameters EXCEPT
                       !.response_format = Some(TypeDict(response_format[1]))])
       ELSE Ok([model_parameters EXCEPT !.json_schema = None])

\* Lines 694-712: with tools, tool_choice defaults to "auto".
ToolChoice(model_parameters, tools) ==
    IF tools # << >> /\ model_parameters.tool_choice = None
    THEN [model_parameters EXCEPT !.tool_choice = Some("auto")]
    ELSE model_parameters

\* Line 731: model.startswith(O_SERIES_COMPATIBILITY)
IsOSeries(model_name) ==
    StartsWith(model_name, "o1") \/ StartsWith(model_name, "o3")
    \/ StartsWith(model_name, "o4")

\* Line 741: "o3-pro" in model
IsO3Pro(model_name) == Find(model_name, "o3-pro", 1) # 0

\* Lines 731-736: the token limit of an o-series model is renamed.
RenameMaxTokens(model_name, model_parameters) ==
    IF IsOSeries(model_name) /\ model_parameters.max_tokens # None
    THEN [model_parameters EXCEPT
            !.max_completion_tokens = model_parameters.max_tokens,
            !.max_tokens = None]
    ELSE model_parameters

\* Lines 717-718 and 738-739: the stop sequences of the request; None when
\* the request has no "stop".
RequestStop(model_name, stop) ==
    IF stop # << >> /\ ~IsOSeries(model_name) THEN Some(stop) ELSE None

\* str.join over the text parts of a list content (lines 805-807).
RECURSIVE JoinTextParts(_)
JoinTextParts(parts) ==
    IF parts = << >> THEN ""
    ELSE LET rest == Tail(parts)
             more == \E k \in 1..Len(rest) : rest[k].type = "text"
         IN IF Head(parts).type = "text"
            THEN Head(parts).data \o (IF more THEN "\n" ELSE "")
                 \o JoinTextParts(rest)
            ELSE JoinTextParts(rest)

\* Lines 796-810: the input part of one message; None when it has none.
InputPart(m) ==
    LET content_str == IF m.parts = None THEN m.content
                       ELSE JoinTextParts(m.parts[1])
    IN IF m.role \notin { "user", "assistant", "tool" } THEN None
       ELSE IF content_str = "" THEN None
       ELSE Some(m.role \o ": " \o content_str)

\* Lines 790-812: the parts joined by blank lines.
RECURSIVE FinalInputFrom(_, _)
FinalInputFrom(messages, started) ==
    IF messages = << >> THEN ""
    ELSE LET part == InputPart(Head(messages))
         IN IF part = None THEN FinalInputFrom(Tail(messages), started)
            ELSE (IF started THEN "\n\n" ELSE "") \o part[1]
                 \o FinalInputFrom(Tail(messages), TRUE)

FinalInput(messages) == FinalInputFrom(messages, FALSE)

\* Lines 815-817: the parameters of the alternate endpoint.
ResponseParams(model_parameters) ==
    IF model_parameters.max_completion_tokens # None
    THEN [model_parameters EXCEPT
            !.max_output_tokens = model_parameters.max_completion_tokens,
            !.max_completion_tokens = None]
    ELSE model_parameters

\* Lines 1198-1218: for the models of the checklist and more than one user
\* message, a list content of a user message becomes its flat text.
RECURSIVE FlatText(_)
FlatText(parts) ==
    IF parts = << >> THEN ""
    ELSE (IF Head(parts).type = "text" THEN Head(parts).data
          ELSE IF Head(parts).type = "image" THEN "[IMAGE]" ELSE "")
         \o (IF Tail(parts) # << >> THEN "\n" ELSE "")
         \o FlatText(Tail(parts))

RECURSIVE FlattenUserMessages(_)
FlattenUserMessages(messages) ==
    IF messages = << >> THEN << >>
    ELSE LET m == Head(messages)
         IN << IF m.role = "user" /\ m.parts # None
               THEN [m EXCEPT !.content = FlatText(m.parts[1]),
                              !.parts = None]
               ELSE m >>
            \o FlattenUserMessages(Tail(messages))

ClearIllegalPromptMessages(model_name, messages) ==
    IF model_name \in { "gpt-4-turbo", "gpt-4-turbo-2024-04-09" }
       /\ Cardinality({ k \in 1..Len(messages) : messages[k].role = "user" }) > 1
    THEN FlattenUserMessages(messages)
    ELSE messages

\* A request handed to the client: endpoint "chat.completions",
\* "completions" or "responses"; a keyword the call lacks is None.
Request(endpoint, model_name, payload, stream, model_parameters, tools, stop, user, stream_options) ==
    [endpoint |-> endpoint, model |-> model_name, payload |-> payload,
     stream |-> stream, model_parameters |-> model_parameters,
     tools |-> tools, stop |-> stop, user |-> user,
     stream_options |-> stream_options]

\* What one step of the dispatcher leaves: the caller's objects as they are
\* now, and either the error raised or the request to send.
Dispatched(prompt_messages, model_parameters, error, request) ==
    [prompt_messages |-> prompt_messages,
     model_parameters |-> model_parameters,
     error |-> error, request |-> request]

\* _chat_generate_o3_pro up to the call of the endpoint.
ChatGenerateO3Pro(model_name, prompt_messages, model_parameters, user) ==
    Request("responses", model_name, [input |-> FinalInput(prompt_messages)],
            None, ResponseParams(model_parameters), None, None,
            IF Truthy(user) THEN user ELSE None, FALSE)

\* _chat_generate up to the call of the endpoint (lines 669-761).
ChatGenerate(model_name, prompt_messages, model_parameters, tools, stop, stream, user) ==
    LET format == ResponseFormat(model_parameters)
        chosen == ToolChoice(format.value, tools)
        cleared == ClearIllegalPromptMessages(model_name, prompt_messages)
        renamed == RenameMaxTokens(model_name, chosen)
        wire == ConvertError(cleared)
    IN IF format.raised
       THEN Dispatched(prompt_messages, model_parameters,
                       Some(format.value), None)
       ELSE IF IsO3Pro(model_name)
       THEN Dispatched(cleared, renamed, None,
                Some(ChatGenerateO3Pro(model_name, cleared, renamed, user)))
       ELSE IF wire.raised
       THEN Dispatched(cleared, renamed, Some(wire.value), None)
       ELSE Dispatched(cleared, renamed, None,
                Some(Request("chat.completions", model_name,
                        [messages |-> WireMessages(cleared)],
                        Some(stream), renamed,
                        IF tools # << >> THEN Some(tools) ELSE None,
                        RequestStop(model_name, stop),
                        IF Truthy(user) THEN user ELSE None,
                        stream)))

\* _generate up to the call of the endpoint (lines 469-495).
Generate(model_name, prompt_messages, model_parameters, stop, stream, user) ==
    IF prompt_messages[1].parts # None
    THEN Dispatched(prompt_messages, model_parameters,
                    Some("AssertionError"), None)
    ELSE Dispatched(prompt_messages, model_parameters, None,
             Some(Request("completions", model_name,
                     [prompt |-> prompt_messages[1].content],
                     Some(stream), model_parameters, None,
                     IF stop # << >> THEN Some(stop) ELSE None,
                     IF Truthy(user) THEN user ELSE None,
                     stream)))

\* get_model_mode (base class): the mode the model schema declares.
CompletionModels == { "gpt-3.5-turbo-instruct" }

GetModelMode(base_model) ==
    IF base_model \in CompletionModels THEN "completion" ELSE "chat"

\* _invoke up to the call of the endpoint (lines 99-127).
Invoke(model_name, prompt_messages, model_parameters, tools, stop, stream, user) ==
    IF GetModelMode(FineTuneBase(model_name)) = "chat"
    THEN ChatGenerate(model_name, prompt_messages, model_parameters, tools,
                      stop, stream, user)
    ELSE Generate(model_name, prompt_messages, model_parameters, stop,
                  stream, user)

\* Lines 754-764 (and 484, 822): an error raised by the client's call.
OnRemoteError_wrapped(e) == [kind |-> "raised", error |-> "InvokeError"]

OnRemoteError(e) == [kind |-> "raised", error |-> e]

\* Lines 766-775 (and 497-505): what invoke returns once the endpoint has
\* answered: a lazy sequence of chunks or a single result.
InvokeReturns(request) ==
    IF request.endpoint # "responses" /\ request.stream = Some(TRUE)
    THEN [kind |-> "stream", error |-> ""]
    ELSE [kind |-> "result", error |-> ""]

\* ------------------------------------------------- tool-call extraction

\* _extract_response_tool_calls: one ToolCall per record whose function is
\* set, every missing field replaced by "".
RECURSIVE ExtractResponseToolCalls(_)
ExtractResponseToolCalls(response_tool_calls) ==
    IF response_tool_calls = << >> THEN << >>
    ELSE LET tc == Head(response_tool_calls)
             rest == ExtractResponseToolCalls(Tail(response_tool_calls))
         IN IF tc.function = None THEN rest
            ELSE << ToolCall(OrEmpty(tc.id), OrEmpty(tc.type),
                             OrEmpty(tc.function[1].name),
                             OrEmpty(tc.function[1].arguments)) >> \o rest

\* _extract_response_function_call on a function call that is not None:
\* id and name are both the function name, type is "function".
ExtractResponseFunctionCall(fc) ==
    ToolCall(OrEmpty(fc.name), "function", OrEmpty(fc.name),
             OrEmpty(fc.arguments))

\* ------------------------------------------------- block-mode handlers

\* LLMResult, reduced to message.content, message.tool_calls and usage.
LLMResult(content, tool_calls, usage) ==
    [content |-> content, tool_calls |-> tool_calls, usage |-> usage]

\* What a block-mode handler leaves: the error raised or the result
\* returned, and the number of calls of the token estimator it made.
Handled(error, result, estimator_calls) ==
    [error |-> error, result |-> result, estimator_calls |-> estimator_calls]

\* The answers of the endpoints.  ChatCompletion: the first choice's
\* message and the usage block.
ChatCompletion(content, tool_calls, function_call, usage) ==
    [kind |-> "chat", content |-> content, tool_calls |-> tool_calls,
     function_call |-> function_call, usage |-> usage]

\* Completion: the first choice's text and the usage block.
Completion(text, usage) == [kind |-> "completion", text |-> text, usage |-> usage]

\* The response object of the responses endpoint.
ResponseObject(output_text, usage) ==
    [kind |-> "responses", output_text |-> output_text, usage |-> usage]

ResponseUsage(input_tokens, output_tokens) ==
    [input_tokens |-> input_tokens, output_tokens |-> output_tokens]

\* Stream: the fragments are read later, by the stream handler.
StreamOfFragments == [kind |-> "stream"]

\* str(value) on a content that may be None (line 1418).
StrOf(content) == IF content = None THEN "None" ELSE content[1]

\* Lines 902-945: _handle_chat_generate_response.
HandleChatGenerateResponse(model_name, response, prompt_messages, tools) ==
    LET Result(tool_calls) ==
            LET Counted(prompt, completion) ==
                    IF response.usage # None
                    THEN Handled(None,
                             Some(LLMResult(response.content, tool_calls,
                                      Some(CalcResponseUsage(
                                               response.usage[1].prompt_tokens,
                                               response.usage[1].completion_tokens)))),
                             0)
                    ELSE IF prompt.raised
                    THEN Handled(Some(prompt.value), None, 1)
                    ELSE IF completion.raised
                    THEN Handled(Some(completion.value), None, 2)
                    ELSE Handled(None,
                             Some(LLMResult(response.content, tool_calls,
                                      Some(CalcResponseUsage(prompt.value,
                                                             completion.value)))),
                             2)
            IN Counted(NumTokensFromMessagesWithTools(model_name,
                           prompt_messages, tools),
                       NumTokensFromMessagesWithTools(model_name,
                           << AssistantPromptMessage(StrOf(response.content),
                                                     tool_calls) >>, << >>))
    IN Result(IF response.tool_calls # None /\ response.tool_calls[1] # << >>
              THEN ExtractResponseToolCalls(response.tool_calls[1])
              ELSE IF response.function_call # None
              THEN << ExtractResponseFunctionCall(response.function_call[1]) >>
              ELSE << >>)

\* Lines 522-555: _handle_generate_response. Without a usage block the
\* content of the first prompt message must be a string (line 535).
HandleGenerateResponse(model_name, response, prompt_messages) ==
    IF response.usage # None
    THEN Handled(None,
             Some(LLMResult(Some(response.text), << >>,
                      Some(CalcResponseUsage(
                               response.usage[1].prompt_tokens,
                               response.usage[1].completion_tokens)))),
             0)
    ELSE IF prompt_messages[1].parts # None
    THEN Handled(Some("AssertionError"), None, 0)
    ELSE Handled(None,
             Some(LLMResult(Some(response.text), << >>,
                      Some(CalcResponseUsage(
                               NumTokensFromString(model_name,
                                   prompt_messages[1].content),
                               NumTokensFromString(model_name,
                                   response.text))))),
             2)

\* Mutant of ChatGenerateO3ProResponse: a response without usage gets an
\* estimated usage.
ChatGenerateO3ProResponse_estimates(model_name, response, prompt_messages) ==
    Handled(None,
        Some(LLMResult(Some(OrEmpty(response.output_text)), << >>,
                 Some(IF response.usage # None
                      THEN CalcResponseUsage(response.usage[1].input_tokens,
                                             response.usage[1].output_tokens)
                      ELSE CalcResponseUsage(
                               IF NumTokensFromMessages(model_name,
                                      prompt_messages).raised THEN 0
                               ELSE NumTokensFromMessages(model_name,
                                        prompt_messages).value,
                               NumTokensFromString(model_name,
                                   OrEmpty(response.output_text)))))),
        IF response.usage # None THEN 0 ELSE 2)

\* Lines 828-849: the result of _chat_generate_o3_pro.
ChatGenerateO3ProResponse(model_name, response, prompt_messages) ==
    Handled(None,
        Some(LLMResult(Some(OrEmpty(response.output_text)), << >>,
                 IF response.usage # None
                 THEN Some(CalcResponseUsage(response.usage[1].input_tokens,
                                             response.usage[1].output_tokens))
                 ELSE None)),
        0)

\* Lines 766-775, 497-505 and 828-849: what invoke does with the answer of
\* the endpoint.  A stream is handed to the stream handler, which reads it
\* when the consumer pulls.
HandleResponse(request, response, prompt_messages, tools) ==
    IF request.endpoint = "responses"
    THEN ChatGenerateO3ProResponse(request.model, response, prompt_messages)
    ELSE IF request.stream = Some(TRUE) THEN Handled(None, None, 0)
    ELSE IF request.endpoint = "chat.completions"
    THEN HandleChatGenerateResponse(request.model, response, prompt_messages,
                                    tools)
    ELSE HandleGenerateResponse(request.model, response, prompt_messages)

\* ------------------------------------------- stateful tool-call aggregation
\* aggregated_tool_calls is a dict keyed by index in insertion order: a
\* sequence of ChoiceDeltaToolCall records with pairwise distinct index.

HasIndex(agg, index) == \E k \in 1..Len(agg) : agg[k].index = index

PosOf(agg, index) == CHOOSE k \in 1..Len(agg) : agg[k].index = index

\* Lines 1047-1056: merge tool_call_chunk into existing_call.  Raises
\* AttributeError when the stored function is None and the chunk carries a
\* name or arguments, TypeError when the stored arguments are None and the
\* chunk carries arguments.
MergeIntoExisting(existing_call, tool_call_chunk) ==
    LET e1 == IF Truthy(tool_call_chunk.id)
              THEN [existing_call EXCEPT !.id = tool_call_chunk.id]
              ELSE existing_call
        e2 == IF Truthy(tool_call_chunk.type)
              THEN [e1 EXCEPT !.type = tool_call_chunk.type]
              ELSE e1
    IN IF tool_call_chunk.function = None THEN Ok(e2)
       ELSE LET fn == tool_call_chunk.function[1]
            IN IF ~Truthy(fn.name) /\ ~Truthy(fn.arguments) THEN Ok(e2)
               ELSE IF e2.function = None THEN Raised(e2)
               ELSE LET old == e2.function[1]
                        named == IF Truthy(fn.name)
                                 THEN [old EXCEPT !.name = fn.name]
                                 ELSE old
                    IN IF ~Truthy(fn.arguments)
                       THEN Ok([e2 EXCEPT !.function = Some(named)])
                       ELSE IF old.arguments = None
                       THEN Raised([e2 EXCEPT !.function = Some(named)])
                       ELSE Ok([e2 EXCEPT !.function = Some(
                                [named EXCEPT !.arguments =
                                    Some(old.arguments[1] \o fn.arguments[1])])])

\* Lines 1043-1056 for one tool_call_chunk: a chunk with an id for an index
\* not yet in the map opens the entry; a chunk for a known index is merged;
\* a chunk without id for an unknown index is skipped.
AggregateToolCallChunk(agg, tool_call_chunk) ==
    IF Truthy(tool_call_chunk.id) /\ ~HasIndex(agg, tool_call_chunk.index)
    THEN Ok(Append(agg, tool_call_chunk))
    ELSE IF HasIndex(agg, tool_call_chunk.index)
    THEN LET k == PosOf(agg, tool_call_chunk.index)
             r == MergeIntoExisting(agg[k], tool_call_chunk)
         IN [raised |-> r.raised, value |-> [agg EXCEPT ![k] = r.value]]
    ELSE Ok(agg)

\* Lines 1040-1056: the loop over the fragment's tool_calls.
RECURSIVE AggregateToolCalls(_, _)
AggregateToolCalls(agg, tool_call_chunks) ==
    IF tool_call_chunks = << >> THEN Ok(agg)
    ELSE LET r == AggregateToolCallChunk(agg, Head(tool_call_chunks))
         IN IF r.raised THEN r
            ELSE AggregateToolCalls(r.value, Tail(tool_call_chunks))

\* ------------------------------------------------ chat stream aggregator

\* Lines 964-979: the locals of _handle_chat_generate_stream_response at
\* the start of an invocation.
ChatLocals ==
    [full_assistant_content |-> "",
     delta_assistant_message_function_call_storage |-> None,
     prompt_tokens |-> 0,
     completion_tokens |-> 0,
     final_tool_calls |-> << >>,
     aggregated_tool_calls |-> << >>,
     final_chunk |-> Chunk("", << >>, None, None)]

\* Lines 990-996: whether the fragment counts as carrying a finish reason;
\* for the "yi-" family only the prefixes length, stop, content_filter do.
HasFinishReason(model, finish_reason) ==
    IF StartsWith(model, "yi-")
    THEN finish_reason # None
         /\ (StartsWith(finish_reason[1], "length")
             \/ StartsWith(finish_reason[1], "stop")
             \/ StartsWith(finish_reason[1], "content_filter"))
    ELSE finish_reason # None

\* Mutant of IsKeepAlive: an empty-string content is content.
IsKeepAlive_nullContentOnly(model, chunk) ==
    /\ ~HasFinishReason(model, chunk.finish_reason)
    /\ chunk.content = None
    /\ chunk.tool_calls = None
    /\ chunk.function_call = None

\* Lines 998-1004: the keep-alive test.
IsKeepAlive(model, chunk) ==
    /\ ~HasFinishReason(model, chunk.finish_reason)
    /\ ~Truthy(chunk.content)
    /\ chunk.tool_calls = None
    /\ chunk.function_call = None

\* Outcome of one loop iteration: the locals after it, the chunk yielded
\* (None when the iteration ends in `continue`), and whether it raised.
StepResult(locals, out, raised) ==
    [locals |-> locals, out |-> out, raised |-> raised]

\* Mutant of LegacyFunctionCall: a continuation replaces the buffered
\* arguments instead of appending to them.
LegacyFunctionCall_replaces(storage, function_call, has_finish_reason) ==
    IF storage # None
    THEN IF function_call # None
         THEN IF function_call[1].arguments = None
              THEN [kind |-> "raise", storage |-> storage, tool_calls |-> << >>]
              ELSE [kind |-> "continue",
                    storage |-> Some([storage[1] EXCEPT !.arguments =
                                         function_call[1].arguments]),
                    tool_calls |-> << >>]
         ELSE [kind |-> "go", storage |-> None,
               tool_calls |-> << ExtractResponseFunctionCall(storage[1]) >>]
    ELSE IF function_call # None
         THEN LET opened == IF function_call[1].arguments = None
                            THEN [function_call[1] EXCEPT !.arguments = Some("")]
                            ELSE function_call[1]
              IN IF ~has_finish_reason
                 THEN [kind |-> "continue", storage |-> Some(opened),
                       tool_calls |-> << >>]
                 ELSE [kind |-> "go", storage |-> Some(opened),
                       tool_calls |-> << ExtractResponseFunctionCall(opened) >>]
         ELSE [kind |-> "go", storage |-> None, tool_calls |-> << >>]

\* Lines 1012-1034, taken when the fragment carries no tool_calls: the
\* legacy function_call buffer.  kind is "continue" (the iteration ends),
\* "raise" (an assertion fails) or "go" (processing goes on with the
\* extracted tool_calls).
LegacyFunctionCall(storage, function_call, has_finish_reason) ==
    IF storage # None
    THEN IF function_call # None
         THEN \* message continues
              IF function_call[1].arguments = None
              THEN [kind |-> "raise", storage |-> storage, tool_calls |-> << >>]
              ELSE [kind |-> "continue",
                    storage |-> Some([storage[1] EXCEPT !.arguments =
                        Some(storage[1].arguments[1]
                             \o function_call[1].arguments[1])]),
                    tool_calls |-> << >>]
         ELSE [kind |-> "go", storage |-> None,
               tool_calls |-> << ExtractResponseFunctionCall(storage[1]) >>]
    ELSE IF function_call # None
         THEN \* start of legacy stream
              LET opened == IF function_call[1].arguments = None
                            THEN [function_call[1] EXCEPT !.arguments = Some("")]
                            ELSE function_call[1]
              IN IF ~has_finish_reason
                 THEN [kind |-> "continue", storage |-> Some(opened),
                       tool_calls |-> << >>]
                 ELSE [kind |-> "go", storage |-> Some(opened),
                       tool_calls |-> << ExtractResponseFunctionCall(opened) >>]
         ELSE [kind |-> "go", storage |-> None, tool_calls |-> << >>]

\* Mutant of YieldIncremental: every incremental chunk reports the usage
\* counted so far.
YieldIncremental_withUsage(locals, chunk) ==
    StepResult(locals,
               Some([chunk EXCEPT !.usage =
                        Some(CalcResponseUsage(locals.prompt_tokens,
                                               locals.completion_tokens))]),
               FALSE)

\* Lines 1099-1107: an incremental chunk is yielded as soon as it is built.
YieldIncremental(locals, chunk) == StepResult(locals, Some(chunk), FALSE)

\* Lines 1058-1107: what follows the extraction and the aggregation.
ChatEmit(locals, chunk, has_finish_reason) ==
    IF has_finish_reason /\ chunk.finish_reason = Some("tool_calls")
    THEN \* all tool calls are finished, yield them
         LET tool_calls == ExtractResponseToolCalls(locals.aggregated_tool_calls)
         IN StepResult(
                [locals EXCEPT !.final_tool_calls = @ \o tool_calls],
                Some(Chunk("", tool_calls, Some("tool_calls"), None)),
                FALSE)
    ELSE LET content == OrEmpty(chunk.content)
             grown == [locals EXCEPT !.full_assistant_content = @ \o content]
         IN IF has_finish_reason
            THEN StepResult(
                     [grown EXCEPT !.final_chunk =
                         Chunk(content, << >>, chunk.finish_reason, None)],
                     None, FALSE)
            ELSE YieldIncremental(grown, Chunk(content, << >>, None, None))

\* Mutant of UsageOnlyStep: the usage trailer also yields an empty chunk.
UsageOnlyStep_yields(locals, chunk) ==
    StepResult(
        IF chunk.usage # None
        THEN [locals EXCEPT
                !.prompt_tokens = chunk.usage[1].prompt_tokens,
                !.completion_tokens = chunk.usage[1].completion_tokens]
        ELSE locals,
        Some(Chunk("", << >>, None, None)), FALSE)

\* Lines 982-987 (and 587-592): a fragment with zero choices only updates
\* the running counts, when it carries a usage block, and yields nothing.
UsageOnlyStep(locals, chunk) ==
    StepResult(
        IF chunk.usage # None
        THEN [locals EXCEPT
                !.prompt_tokens = chunk.usage[1].prompt_tokens,
                !.completion_tokens = chunk.usage[1].completion_tokens]
        ELSE locals,
        None, FALSE)

\* Lines 981-1107: one iteration of the loop over the upstream fragments.
ChatStep(model, locals, chunk) ==
    IF chunk.nchoices = 0 THEN UsageOnlyStep(locals, chunk)
    ELSE IF IsKeepAlive(model, chunk) THEN StepResult(locals, None, FALSE)
    ELSE
      LET has_finish_reason == HasFinishReason(model, chunk.finish_reason)
          has_tool_calls == chunk.tool_calls # None /\ chunk.tool_calls[1] # << >>
          legacy == LegacyFunctionCall(
                        locals.delta_assistant_message_function_call_storage,
                        chunk.function_call, has_finish_reason)
      IN IF ~has_tool_calls /\ legacy.kind = "raise"
         THEN StepResult(locals, None, TRUE)
         ELSE IF ~has_tool_calls /\ legacy.kind = "continue"
         THEN StepResult(
                  [locals EXCEPT
                     !.delta_assistant_message_function_call_storage =
                         legacy.storage],
                  None, FALSE)
         ELSE
           LET tool_calls == IF has_tool_calls
                             THEN ExtractResponseToolCalls(chunk.tool_calls[1])
                             ELSE legacy.tool_calls
               l1 == IF has_tool_calls THEN locals
                     ELSE [locals EXCEPT
                             !.delta_assistant_message_function_call_storage =
                                 legacy.storage]
               l2 == [l1 EXCEPT !.final_tool_calls = @ \o tool_calls]
               agg == IF has_tool_calls
                      THEN AggregateToolCalls(l2.aggregated_tool_calls,
                                              chunk.tool_calls[1])
                      ELSE Ok(l2.aggregated_tool_calls)
               l3 == [l2 EXCEPT !.aggregated_tool_calls = agg.value]
           IN IF agg.raised THEN StepResult(l3, None, TRUE)
              ELSE ChatEmit(l3, chunk, has_finish_reason)

\* Lines 1109-1120 (and 627-634): after the loop the estimator runs for
\* each count that is 0.
EstimatorCalls(locals) ==
    (IF locals.prompt_tokens = 0 THEN 1 ELSE 0)
    + (IF locals.completion_tokens = 0 THEN 1 ELSE 0)

\* Lines 1115-1117: the accumulated output handed to the estimator.
FullAssistantPromptMessage(locals) ==
    AssistantPromptMessage(locals.full_assistant_content,
                           locals.final_tool_calls)

\* Lines 1110-1112: the estimate of the prompt messages, when it is asked.
ChatFinishPrompt(model, locals) ==
    IF locals.prompt_tokens = 0
    THEN NumTokensFromMessages(model, PromptMessages)
    ELSE Ok(locals.prompt_tokens)

\* Lines 1114-1120: the estimate of the accumulated output, when it is
\* asked.
ChatFinishCompletion(model, locals) ==
    IF locals.completion_tokens = 0
    THEN NumTokensFromMessages(model,
             << FullAssistantPromptMessage(locals) >>)
    ELSE Ok(locals.completion_tokens)

\* The error of the first of the two estimates that raised, if any.
FirstError(prompt, completion) ==
    IF prompt.raised THEN Some(prompt.value)
    ELSE IF completion.raised THEN Some(completion.value)
    ELSE None

\* The error that leaves the generator after the loop, if any: the
\* estimator raises for a model without accounting convention, and for an
\* accumulated tool call of type "text".
ChatFinishError(model, locals) ==
    FirstError(ChatFinishPrompt(model, locals),
               ChatFinishCompletion(model, locals))

ChatFinishRaises(model, locals) == ChatFinishError(model, locals) # None

\* The calls of the estimator made after the loop, prompt being what the
\* first estimate gave: a call that raises is the last one.
ChatFinishCalls(locals, prompt) ==
    IF prompt.raised THEN 1 ELSE EstimatorCalls(locals)

\* Lines 1109-1126 on the two estimates: each count is rebound to its
\* estimate and the usage is stored in final_chunk. When an estimate
\* raised, the locals are those of the frame the error leaves: a count is
\* rebound only by a call that returned.
Rebound(locals, prompt, completion) ==
    IF prompt.raised THEN locals
    ELSE IF completion.raised
    THEN [locals EXCEPT !.prompt_tokens = prompt.value]
    ELSE [locals EXCEPT
            !.prompt_tokens = prompt.value,
            !.completion_tokens = completion.value,
            !.final_chunk.usage =
                Some(CalcResponseUsage(prompt.value, completion.value))]

\* Lines 1109-1126: the locals when the generator is suspended at the final
\* yield, or when the estimator's error leaves it.
ChatFinish(model, locals) ==
    Rebound(locals, ChatFinishPrompt(model, locals),
            ChatFinishCompletion(model, locals))

\* Line 1128: the chunk yielded last is final_chunk.
ChatFinalChunk(model, locals) == ChatFinish(model, locals).final_chunk

\* --------------------------------------------- completion stream handler

\* Lines 573-584: the locals of _handle_generate_stream_response.
GenLocals ==
    [full_text |-> "",
     prompt_tokens |-> 0,
     completion_tokens |-> 0,
     final_chunk |-> Chunk("", << >>, None, None)]

\* Lines 586-625: one iteration of the loop (content is delta.text).
GenStep(locals, chunk) ==
    IF chunk.nchoices = 0 THEN UsageOnlyStep(locals, chunk)
    ELSE IF chunk.finish_reason = None /\ ~Truthy(chunk.content)
    THEN StepResult(locals, None, FALSE)
    ELSE LET text == OrEmpty(chunk.content)
             grown == [locals EXCEPT !.full_text = @ \o text]
         IN IF chunk.finish_reason # None
            THEN StepResult(
                     [grown EXCEPT !.final_chunk =
                         Chunk(text, << >>, chunk.finish_reason, None)],
                     None, FALSE)
            ELSE StepResult(grown, Some(Chunk(text, << >>, None, None)), FALSE)

\* Lines 627-641: the locals when the generator is suspended at the final
\* yield; _num_tokens_from_string never raises.
GenFinish(model, locals) ==
    LET prompt_tokens ==
            IF locals.prompt_tokens = 0
            THEN NumTokensFromString(model, PromptMessages[1].content)
            ELSE locals.prompt_tokens
        completion_tokens ==
            IF locals.completion_tokens = 0
            THEN NumTokensFromString(model, locals.full_text)
            ELSE locals.completion_tokens
    IN [locals EXCEPT
          !.prompt_tokens = prompt_tokens,
          !.completion_tokens = completion_tokens,
          !.final_chunk.usage =
              Some(CalcResponseUsage(prompt_tokens, completion_tokens))]

\* Line 643: the chunk yielded last is final_chunk.
GenFinalChunk(model, locals) == GenFinish(model, locals).final_chunk

\* ------------------------------------------------------ upstream fragments

\* A chat fragment with one choice and no usage block.
Delta(finish_reason, content, tool_calls, function_call) ==
    Frag(1, None, finish_reason, content, tool_calls, function_call)

\* A fragment with zero choices.
Trailer(usage) == Frag(0, usage, None, None, None, None)

\* A multi-call fragment carrying one ChoiceDeltaToolCall.
ToolDelta(index, id, type, function) ==
    Delta(None, None, Some(<< TC(index, id, type, function) >>), None)

\* The fragments an upstream may deliver to the chat stream aggregator.
ChatFragments ==
    { Trailer(Some(WireUsage(7, 3))),
      Trailer(Some(WireUsage(7, 0))),
      Trailer(None),
      Delta(None, None, None, None),
      Delta(None, Some(""), None, None),
      Delta(None, Some("a"), None, None),
      Delta(None, Some("b"), None, None),
      Delta(Some("stop"), None, None, None),
      Delta(Some("length"), Some("c"), None, None),
      Delta(Some("tool_calls"), None, None, None),
      Delta(Some(""), Some("a"), None, None),
      ToolDelta(0, Some("x"), Some("function"), Some(Fn(Some("f"), Some("")))),
      ToolDelta(0, None, None, Some(Fn(None, Some("{")))),
      ToolDelta(0, None, None, Some(Fn(None, Some("}")))),
      ToolDelta(0, Some("x"), None, None),
      ToolDelta(0, Some("x"), Some("function"), Some(Fn(Some("f"), None))),
      ToolDelta(1, Some("y"), Some("function"), Some(Fn(Some("g"), Some("1")))),
      ToolDelta(0, Some("x"), Some("text"), Some(Fn(Some("f"), Some("{}")))),
      Delta(None, None, None, Some(Fn(Some("f"), Some("{")))),
      Delta(None, None, None, Some(Fn(Some("f"), None))),
      Delta(None, None, None, Some(Fn(None, Some("}")))),
      Delta(None, None, None, Some(Fn(Some("g"), Some("[")))),
      Delta(Some("function_call"), None, None, Some(Fn(None, Some("}")))) }

\* The fragments an upstream may deliver to the completion stream handler.
GenFragments ==
    { Trailer(Some(WireUsage(7, 3))),
      Trailer(Some(WireUsage(7, 0))),
      Trailer(None),
      Delta(None, None, None, None),
      Delta(None, Some(""), None, None),
      Delta(None, Some("a"), None, None),
      Delta(None, Some("b"), None, None),
      Delta(Some("stop"), None, None, None),
      Delta(Some("length"), Some("c"), None, None) }

\* The fragments of the two interleaved invocations.
TwoFragments ==
    { Trailer(Some(WireUsage(7, 3))),
      Delta(None, Some("a"), None, None),
      Delta(Some("stop"), Some("b"), None, None),
      ToolDelta(0, Some("x"), Some("function"), Some(Fn(Some("f"), Some("{")))),
      Delta(None, None, None, Some(Fn(Some("f"), Some("{")))) }

\* Model names: a current-convention chat model and one of the "yi-" family,
\* which has its own finish-reason encoding and no accounting convention.
Models == { "gpt-4", "yi-large" }

Handlers == { "chat", "completion" }

Invocations == { "A", "B" }

\* ------------------------------------------------------------------ state

VARIABLES
    pc,              \* per invocation: position of the generator
    handler,         \* per invocation: "chat" or "completion"
    model,           \* per invocation: the model name
    locals,          \* per invocation: the generator's local variables
    consumed,        \* per invocation: the fragments read from the upstream
    emitted,         \* per invocation: the chunks delivered to the consumer
    emittedAt,       \* per invocation: len(consumed) when each chunk was yielded
    estimatorCalls,  \* per invocation: calls of the token estimator
    usageCalls,      \* per invocation: calls of _calc_response_usage
    est,             \* the token estimator's caller: arguments, records, calls
    disp             \* the dispatcher: one invoke, its request and outcome

streamVars == << pc, handler, model, locals, consumed, emitted, emittedAt,
                 estimatorCalls, usageCalls >>

vars == << pc, handler, model, locals, consumed, emitted, emittedAt,
           estimatorCalls, usageCalls, est, disp >>

\* Generator positions from which the next pull runs the body:
\* "created" (not started), "running" (inside a pull, the last iteration
\* ended in `continue`), "yielded" (suspended at a yield inside the loop).
\* The others are final: "done" (the final chunk was yielded), "raised" (an
\* exception left the loop), "raised_estimating" (the estimator raised after
\* the loop), "abandoned" (the consumer stopped pulling), "idle" (no
\* invocation).
Live == { "created", "running", "yielded" }

\* Mutant of FrameOf: the aggregation state is one object shared by all
\* invocations.
FrameOf_shared(frames, i) == frames["A"]

\* The frame read by the body of invocation i: each generator has its own.
FrameOf(frames, i) == frames[i]

\* Mutant of Deliver: a chunk overtakes the chunks yielded before it.
Deliver_overtakes(delivered, chunk) == << chunk >> \o delivered

\* A yield hands the chunk to the consumer after those already delivered.
Deliver(delivered, chunk) == Append(delivered, chunk)

InitLocals(h) == IF h = "chat" THEN ChatLocals ELSE GenLocals

\* No call of the token estimator from outside a stream, and no invoke.
EstUnused == [used |-> FALSE]

DispUnused == [used |-> FALSE]

\* One invocation, of either handler, for any model.
Init ==
    /\ pc = [i \in Invocations |-> IF i = "A" THEN "created" ELSE "idle"]
    /\ \E h \in Handlers :
         /\ handler = [i \in Invocations |-> IF i = "A" THEN h ELSE "chat"]
         /\ locals = [i \in Invocations |->
                         IF i = "A" THEN InitLocals(h) ELSE ChatLocals]
    /\ \E m \in Models :
         model = [i \in Invocations |-> IF i = "A" THEN m ELSE "gpt-4"]
    /\ consumed = [i \in Invocations |-> << >>]
    /\ emitted = [i \in Invocations |-> << >>]
    /\ emittedAt = [i \in Invocations |-> << >>]
    /\ estimatorCalls = [i \in Invocations |-> 0]
    /\ usageCalls = [i \in Invocations |-> 0]
    /\ est = EstUnused
    /\ disp = DispUnused

\* Two chat invocations, each with its own upstream.
InitTwo ==
    /\ pc = [i \in Invocations |-> "created"]
    /\ handler = [i \in Invocations |-> "chat"]
    /\ model \in [Invocations -> Models]
    /\ locals = [i \in Invocations |-> ChatLocals]
    /\ consumed = [i \in Invocations |-> << >>]
    /\ emitted = [i \in Invocations |-> << >>]
    /\ emittedAt = [i \in Invocations |-> << >>]
    /\ estimatorCalls = [i \in Invocations |-> 0]
    /\ usageCalls = [i \in Invocations |-> 0]
    /\ est = EstUnused
    /\ disp = DispUnused

\* The effect of one loop iteration r of invocation i on fragment f.
ApplyStep(i, f, r) ==
    /\ consumed' = [consumed EXCEPT ![i] = Append(@, f)]
    /\ locals' = [locals EXCEPT ![i] = r.locals]
    /\ pc' = [pc EXCEPT ![i] = IF r.raised THEN "raised"
                               ELSE IF r.out # None THEN "yielded"
                               ELSE "running"]
    /\ emitted' = [emitted EXCEPT ![i] =
                      IF r.out # None THEN Deliver(@, r.out[1]) ELSE @]
    /\ emittedAt' = [emittedAt EXCEPT ![i] =
                      IF r.out # None THEN Append(@, Len(consumed[i]) + 1)
                      ELSE @]
    /\ UNCHANGED << handler, model, estimatorCalls, usageCalls, est, disp >>

\* Lines 981-1107: the chat aggregator reads fragment f and processes it.
ChatConsumeWith(i, f, bound) ==
    /\ handler[i] = "chat"
    /\ pc[i] \in Live
    /\ Len(consumed[i]) < bound
    /\ ApplyStep(i, f, ChatStep(model[i], FrameOf(locals, i), f))

ChatConsume(i) == \E f \in ChatFragments : ChatConsumeWith(i, f, MaxFrags)

ChatConsumeTwo(i) == \E f \in TwoFragments : ChatConsumeWith(i, f, MaxFragsTwo)

\* Lines 586-625: the completion handler reads fragment f and processes it.
GenConsume(i) ==
    \E f \in GenFragments :
        /\ handler[i] = "completion"
        /\ pc[i] \in Live
        /\ Len(consumed[i]) < MaxFrags
        /\ ApplyStep(i, f, GenStep(FrameOf(locals, i), f))

\* Lines 1109-1128: the upstream is exhausted; the chat aggregator computes
\* the usage and yields the final chunk, or the estimator raises.
ChatFinishStep(i) ==
    /\ handler[i] = "chat"
    /\ pc[i] \in Live
    /\ \E prompt \in { ChatFinishPrompt(model[i], FrameOf(locals, i)) } :
       \E completion \in { ChatFinishCompletion(model[i], FrameOf(locals, i)) } :
       \E finished \in { Rebound(FrameOf(locals, i), prompt, completion) } :
         /\ locals' = [locals EXCEPT ![i] = finished]
         /\ IF FirstError(prompt, completion) # None
            THEN /\ pc' = [pc EXCEPT ![i] = "raised_estimating"]
                 /\ estimatorCalls' = [estimatorCalls EXCEPT ![i] =
                        @ + ChatFinishCalls(FrameOf(locals, i), prompt)]
                 /\ UNCHANGED << emitted, emittedAt, usageCalls >>
            ELSE /\ pc' = [pc EXCEPT ![i] = "done"]
                 /\ estimatorCalls' = [estimatorCalls EXCEPT ![i] =
                        @ + EstimatorCalls(FrameOf(locals, i))]
                 /\ usageCalls' = [usageCalls EXCEPT ![i] = @ + 1]
                 /\ emitted' = [emitted EXCEPT ![i] =
                        Deliver(@, finished.final_chunk)]
                 /\ emittedAt' = [emittedAt EXCEPT ![i] =
                        Append(@, Len(consumed[i]))]
    /\ UNCHANGED << handler, model, consumed >>

ChatExhaust(i) == ChatFinishStep(i) /\ UNCHANGED << est, disp >>

\* Lines 627-643: the upstream is exhausted; the completion handler computes
\* the usage and yields the final chunk.
GenExhaust(i) ==
    /\ handler[i] = "completion"
    /\ pc[i] \in Live
    /\ pc' = [pc EXCEPT ![i] = "done"]
    /\ estimatorCalls' = [estimatorCalls EXCEPT ![i] =
                            @ + EstimatorCalls(FrameOf(locals, i))]
    /\ usageCalls' = [usageCalls EXCEPT ![i] = @ + 1]
    /\ locals' = [locals EXCEPT ![i] = GenFinish(model[i], FrameOf(locals, i))]
    /\ emitted' = [emitted EXCEPT ![i] =
           Deliver(@, GenFinalChunk(model[i], FrameOf(locals, i)))]
    /\ emittedAt' = [emittedAt EXCEPT ![i] = Append(@, Len(consumed[i]))]
    /\ UNCHANGED << handler, model, consumed, est, disp >>

\* The consumer stops pulling: a generator is only ever left suspended,
\* before its first pull or at a yield.
Abandon(i) ==
    /\ pc[i] \in { "created", "yielded" }
    /\ pc' = [pc EXCEPT ![i] = "abandoned"]
    /\ UNCHANGED << handler, model, locals, consumed, emitted, emittedAt,
                    estimatorCalls, usageCalls, est, disp >>

Next ==
    \E i \in Invocations :
        \/ ChatConsume(i)
        \/ GenConsume(i)
        \/ ChatExhaust(i)
        \/ GenExhaust(i)
        \/ Abandon(i)

Spec == Init /\ [][Next]_vars

NextTwo ==
    \E i \in Invocations :
        \/ ChatConsumeTwo(i)
        \/ ChatExhaust(i)
        \/ Abandon(i)

SpecTwo == InitTwo /\ [][NextTwo]_vars

\* ------------------------------------------ the token estimator's caller

\* Model names handed to the estimator: current-convention chat models, the
\* older message-delimiter convention, aliased families, fine-tuned names,
\* names of no family with an accounting convention, and a completion
\* model.
EstModels ==
    { "gpt-4", "gpt-3.5-turbo-0301", "o3-mini", "chatgpt-4o-latest",
      "ft:gpt-3.5-turbo:acme", "yi-large", "ft:yi-large:acme",
      "gpt-3.5-turbo-instruct" }

AToolCall == ToolCall("x", "function", "f", "{}")

\* A tool call whose type is the string "text".
ATextToolCall == ToolCall("x", "text", "f", "{}")

\* The prompt messages the lists are built from.
EstMessages ==
    { UserPromptMessage("hi"),
      PromptMessage("user", "hi", None, Some("bob"), << >>, None),
      PromptMessage("user", "hi", None, Some(""), << >>, None),
      PromptMessage("user", "",
          Some(<< ContentPart("text", "ab"), ContentPart("image", "u") >>),
          None, << >>, None),
      PromptMessage("user", "", Some(<< ContentPart("text", "ab") >>),
          None, << >>, None),
      PromptMessage("user", "",
          Some(<< ContentPart("text", "a"),
                  ContentPart("audio", "data:a;base64,QQ"),
                  ContentPart("text", "b") >>),
          Some("bob"), << >>, None),
      AssistantPromptMessage("ok", << >>),
      AssistantPromptMessage("", << AToolCall >>),
      PromptMessage("assistant", "ok", None, Some("bot"),
          << ToolCall("y", "", "g", "") >>, None),
      AssistantPromptMessage("hi", << ATextToolCall >>),
      PromptMessage("assistant", "",
          Some(<< ContentPart("text", "p"), ContentPart("image", "u") >>),
          None, << >>, None),
      PromptMessage("system", "s", None, Some("sys"), << >>, None),
      PromptMessage("tool", "r", None, Some("t"), << >>, Some("x")),
      PromptMessage("tool", "r", None, None, << >>, Some("x")),
      PromptMessage("developer", "d", None, Some("dev"), << >>, None) }

\* The messages that follow another one in a list of two.
EstFollowUps ==
    { PromptMessage("user", "hi", None, Some("bob"), << >>, None),
      AssistantPromptMessage("", << AToolCall >>),
      PromptMessage("tool", "r", None, Some("t"), << >>, Some("x")) }

\* The message lists handed to the codec and the estimator.
EstMessageLists ==
    { << m >> : m \in EstMessages }
    \cup { << m, n >> : m \in EstMessages, n \in EstFollowUps }

\* The tools argument: none, or one declared tool.
EstTools ==
    { << >>,
      << PromptMessageTool("f", "d", Some("t"), "object",
             Some(<< [key |-> "q",
                      fields |-> << Field("type", "string", << >>),
                                    Field("enum", "", << "a", "b" >>) >>] >>),
             Some(<< "q" >>)) >> }

\* The arguments of the calls made in between: what the stream aggregator
\* asks the estimator after a stream that produced a tool call.
OtherModel == "gpt-4"

OtherMessages == << AssistantPromptMessage("a", << AToolCall >>) >>

\* Mutant of EstimateCall: the instance keeps a running total, and answers
\* with it.
EstimateCall_running(self, model_name, messages, tools) ==
    LET base_model == FineTuneBase(model_name)
        now == IF GetModelMode(model_name) = "chat"
               THEN NumTokensFromMessagesWithTools(base_model, messages, tools)
               ELSE IF messages[1].parts # None THEN Raised("AssertionError")
               ELSE Ok(NumTokensFromString(base_model, messages[1].content))
        before == IF self.history # << >>
                  THEN self.history[Len(self.history)].result
                  ELSE Ok(0)
    IN IF now.raised \/ before.raised THEN now
       ELSE Ok(now.value + before.value)

\* Lines 304-336 (get_num_tokens): the call of the estimator on an
\* instance; self is the instance, which holds no state the estimator
\* reads. The mode is asked for the full model name (line 327); a chat
\* model goes to _num_tokens_from_messages with the base model, a
\* completion model to _num_tokens_from_string with the content of the
\* first message, which must be a string (line 335); tools are ignored.
EstimateCall(self, model_name, messages, tools) ==
    LET base_model == FineTuneBase(model_name)
    IN IF GetModelMode(model_name) = "chat"
       THEN NumTokensFromMessagesWithTools(base_model, messages, tools)
       ELSE IF messages[1].parts # None THEN Raised("AssertionError")
       ELSE Ok(NumTokensFromString(base_model, messages[1].content))

\* A caller holding a model name, a message list and tools.
InitEst ==
    /\ pc = [i \in Invocations |-> "idle"]
    /\ handler = [i \in Invocations |-> "chat"]
    /\ model = [i \in Invocations |-> "gpt-4"]
    /\ locals = [i \in Invocations |-> ChatLocals]
    /\ consumed = [i \in Invocations |-> << >>]
    /\ emitted = [i \in Invocations |-> << >>]
    /\ emittedAt = [i \in Invocations |-> << >>]
    /\ estimatorCalls = [i \in Invocations |-> 0]
    /\ usageCalls = [i \in Invocations |-> 0]
    /\ disp = DispUnused
    /\ \E m \in EstModels, l \in EstMessageLists, t \in EstTools :
         est = [used |-> TRUE, model |-> m, messages |-> l, tools |-> t,
                wire |-> None, history |-> << >>]

\* The caller converts its messages to wire records.
EstConvert ==
    /\ est.used
    /\ est.wire = None
    /\ est' = [est EXCEPT !.wire = Some(ConvertAll(est.messages))]
    /\ UNCHANGED << streamVars, disp >>

\* The caller asks for the estimate of its model, messages and tools.
EstEstimate ==
    /\ est.used
    /\ Len(est.history) < MaxCalls
    /\ est' = [est EXCEPT !.history = Append(@,
                 [other |-> FALSE,
                  result |-> EstimateCall(est, est.model, est.messages,
                                          est.tools)])]
    /\ UNCHANGED << streamVars, disp >>

\* Another call of the estimator, with other arguments.
EstEstimateOther ==
    /\ est.used
    /\ Len(est.history) < MaxCalls
    /\ est' = [est EXCEPT !.history = Append(@,
                 [other |-> TRUE,
                  result |-> EstimateCall(est, OtherModel, OtherMessages,
                                          << >>)])]
    /\ UNCHANGED << streamVars, disp >>

NextEst ==
    \/ EstConvert
    \/ EstEstimate
    \/ EstEstimateOther

SpecEst == InitEst /\ [][NextEst]_vars

\* ------------------------------------------------------ one invoke call

\* Model names of the invocations: chat models, a checklist model,
\* reasoning models (one fine-tuned), names routed to the alternate
\* endpoint (one fine-tuned), and a text completion model.
DispModels ==
    { "gpt-4", "gpt-4-turbo", "o3-mini", "ft:o4-mini:acme", "o3-pro",
      "ft:o3-pro:acme", "gpt-3.5-turbo-instruct" }

\* The parameter dicts of chat invocations and of completion invocations.
\* The dicts an earlier chat invocation left in the caller's hands (lines
\* 686 and 688 write into the caller's dict), handed to invoke again.
LeftParameters ==
    { ModelParameters(Some(FormatDict("json_object", None)), None,
                      None, None, None),
      ModelParameters(Some(FormatDict("json_object", None)), Some("{}"),
                      None, None, None),
      ModelParameters(Some(FormatDict("json_schema",
                                      Some(JsonLoads("{}").value))), None,
                      None, None, None) }

ChatParameters ==
    { ModelParameters(rf, js, mt, mct, None) :
        rf \in { None, Some(FormatName("json_schema")),
                 Some(FormatName("json_object")) },
        js \in { None, Some(""), Some("{bad"), Some("{}") },
        mt \in { None, Some(5) },
        mct \in { None, Some(7) } }
    \cup LeftParameters

CompletionParameters ==
    { ModelParameters(None, None, mt, None, None) : mt \in { None, Some(5) } }

\* The prompt message lists of the invocations.
DispMessageLists ==
    { << UserPromptMessage("hi") >>,
      << PromptMessage("system", "s", None, None, << >>, None),
         UserPromptMessage("hi"),
         AssistantPromptMessage("", << AToolCall >>),
         PromptMessage("tool", "r", None, None, << >>, Some("x")) >>,
      << PromptMessage("user", "",
             Some(<< ContentPart("text", "a"), ContentPart("image", "u"),
                     ContentPart("text", "b") >>), None, << >>, None),
         AssistantPromptMessage("ok", << >>),
         UserPromptMessage("hi") >>,
      << PromptMessage("user", "", Some(<< ContentPart("image", "u") >>),
             None, << >>, None) >>,
      << PromptMessage("developer", "d", None, None, << >>, None),
         UserPromptMessage("hi") >>,
      << PromptMessage("system", "",
             Some(<< ContentPart("text", "p"), ContentPart("image", "u") >>),
             None, << >>, None),
         UserPromptMessage("hi"),
         AssistantPromptMessage("", << ATextToolCall >>) >> }

\* The tools and the tool_choice the caller passes with them.
DispTools ==
    { << << >>, None >>,
      << << PromptMessageTool("f", "d", None, "object", None, None) >>, None >>,
      << << PromptMessageTool("f", "d", None, "object", None, None) >>,
         Some("required") >> }

DispStops == { << >>, << "END" >> }

DispUsers == { None, Some("u") }

\* The errors the client's call raises.
RemoteErrors == { "APIConnectionError", "RateLimitError" }

\* The answers of the chat.completions endpoint to a block request: text,
\* tool calls, a legacy function call, with and without a usage block.
ChatResponses ==
    { ChatCompletion(Some("ab"), None, None, Some(WireUsage(7, 3))),
      ChatCompletion(Some("ab"), None, None, None),
      ChatCompletion(Some(""), None, None, Some(WireUsage(7, 0))),
      ChatCompletion(None,
          Some(<< TC(0, Some("x"), Some("function"),
                     Some(Fn(Some("f"), Some("{}")))) >>),
          None, Some(WireUsage(7, 3))),
      ChatCompletion(None,
          Some(<< TC(0, Some("x"), Some("function"),
                     Some(Fn(Some("f"), Some("{}")))),
                  TC(1, Some("y"), Some("function"),
                     Some(Fn(Some("g"), Some("[]")))) >>),
          None, None),
      ChatCompletion(None, None, Some(Fn(Some("f"), Some("{}"))),
          Some(WireUsage(7, 3))),
      ChatCompletion(Some("ab"), None, Some(Fn(Some("f"), Some("{}"))), None),
      ChatCompletion(None,
          Some(<< TC(0, Some("x"), Some("text"),
                     Some(Fn(Some("f"), Some("{}")))) >>),
          None, None) }

\* The answers of the completions endpoint to a block request.
CompletionResponses ==
    { Completion("ab", Some(WireUsage(7, 3))), Completion("ab", None) }

\* The answers of the responses endpoint.
O3ProResponses ==
    { ResponseObject(Some("ab"), Some(ResponseUsage(7, 3))),
      ResponseObject(Some("ab"), None),
      ResponseObject(None, Some(ResponseUsage(0, 0))) }

\* The answers an endpoint may give to a request.
ResponsesTo(request) ==
    IF request.endpoint = "responses" THEN O3ProResponses
    ELSE IF request.stream = Some(TRUE) THEN { StreamOfFragments }
    ELSE IF request.endpoint = "chat.completions" THEN ChatResponses
    ELSE CompletionResponses

\* The caller has called invoke.
InitDisp ==
    /\ pc = [i \in Invocations |-> "idle"]
    /\ handler = [i \in Invocations |-> "chat"]
    /\ model = [i \in Invocations |-> "gpt-4"]
    /\ locals = [i \in Invocations |-> ChatLocals]
    /\ consumed = [i \in Invocations |-> << >>]
    /\ emitted = [i \in Invocations |-> << >>]
    /\ emittedAt = [i \in Invocations |-> << >>]
    /\ estimatorCalls = [i \in Invocations |-> 0]
    /\ usageCalls = [i \in Invocations |-> 0]
    /\ est = EstUnused
    /\ \E m \in DispModels, l \in DispMessageLists, t \in DispTools,
          s \in DispStops, stream \in BOOLEAN, u \in DispUsers :
         \E p \in IF GetModelMode(FineTuneBase(m)) = "chat"
                  THEN ChatParameters ELSE CompletionParameters :
           LET parameters == [p EXCEPT !.tool_choice = t[2]]
           IN disp = [used |-> TRUE, model |-> m, prompt_messages |-> l,
                      model_parameters |-> parameters, tools |-> t[1],
                      stop |-> s, stream |-> stream, user |-> u,
                      caller |-> [prompt_messages |-> l,
                                  model_parameters |-> parameters],
                      pc |-> "called", requests |-> << >>,
                      remote |-> None, response |-> None, result |-> None,
                      estimator_calls |-> 0, outcome |-> None]

\* Lines 99-127 with 669-761, 469-495 and 789-826: invoke runs up to the
\* call of the endpoint, or raises before it.
DispSend ==
    /\ disp.used
    /\ disp.pc = "called"
    /\ LET d == Invoke(disp.model, disp.prompt_messages,
                       disp.model_parameters, disp.tools, disp.stop,
                       disp.stream, disp.user)
       IN disp' = [disp EXCEPT
                     !.prompt_messages = d.prompt_messages,
                     !.model_parameters = d.model_parameters,
                     !.requests = IF d.request # None
                                  THEN Append(@, d.request[1]) ELSE @,
                     !.pc = IF d.error # None THEN "raised" ELSE "awaiting",
                     !.outcome = IF d.error # None
                                 THEN Some([kind |-> "raised",
                                            error |-> d.error[1]])
                                 ELSE None]
    /\ UNCHANGED << streamVars, est >>

\* The client's call raises e: the error leaves invoke.
DispRemoteFails ==
    /\ disp.used
    /\ disp.pc = "awaiting"
    /\ \E e \in RemoteErrors :
         disp' = [disp EXCEPT !.pc = "raised", !.remote = Some(e),
                              !.outcome = Some(OnRemoteError(e))]
    /\ UNCHANGED << streamVars, est >>

\* The endpoint answers with response: the handler of the answer runs, and
\* invoke returns or the handler's error leaves it.
DispAnswerWith(response) ==
    /\ disp.used
    /\ disp.pc = "awaiting"
    /\ \E request \in { disp.requests[Len(disp.requests)] } :
         \E h \in { HandleResponse(request, response, disp.prompt_messages,
                                   disp.tools) } :
           disp' = [disp EXCEPT
                      !.pc = IF h.error # None THEN "raised" ELSE "returned",
                      !.response = Some(response),
                      !.result = h.result,
                      !.estimator_calls = h.estimator_calls,
                      !.outcome = IF h.error # None
                                  THEN Some([kind |-> "raised",
                                             error |-> h.error[1]])
                                  ELSE Some(InvokeReturns(request))]
    /\ UNCHANGED << streamVars, est >>

DispRemoteAnswers ==
    /\ disp.used
    /\ disp.pc = "awaiting"
    /\ \E response \in ResponsesTo(disp.requests[Len(disp.requests)]) :
         DispAnswerWith(response)

NextDisp ==
    \/ DispSend
    \/ DispRemoteFails
    \/ DispRemoteAnswers

SpecDisp == InitDisp /\ [][NextDisp]_vars

\* ===================================================================
\* Properties
\* ===================================================================

\* ------------------------------ one output, as a block and as a stream

\* The models of the two deliveries.
BlockModels == { "gpt-4", "gpt-3.5-turbo-0301", "yi-large" }

\* The text of an output, one character per fragment.
RECURSIVE TextFragments(_)
TextFragments(text) ==
    IF text = "" THEN << >>
    ELSE << Delta(None, Some(SubSeq(text, 1, 1)), None, None) >>
         \o TextFragments(SubSeq(text, 2, Len(text)))

\* The tool calls of an output: per call a fragment with index, id, type and
\* function name, then a fragment with the arguments.
RECURSIVE ToolCallFragments(_)
ToolCallFragments(tool_calls) ==
    IF tool_calls = << >> THEN << >>
    ELSE LET tc == Head(tool_calls)
         IN << ToolDelta(tc.index, tc.id, tc.type,
                         Some(Fn(tc.function[1].name, Some("")))),
               ToolDelta(tc.index, None, None,
                         Some(Fn(None, tc.function[1].arguments))) >>
            \o ToolCallFragments(Tail(tool_calls))

\* The legacy function call of an output: a fragment with the name, then a
\* fragment with the arguments.
FunctionCallFragments(function_call) ==
    << Delta(None, None, None, Some(Fn(function_call.name, Some("")))),
       Delta(None, None, None, Some(Fn(None, function_call.arguments))) >>

\* The finish reason the upstream gives to an output.
FinishReasonOf(response) ==
    IF response.tool_calls # None THEN "tool_calls"
    ELSE IF response.function_call # None THEN "function_call"
    ELSE "stop"

\* The fragment sequence by which the upstream delivers the output of a
\* block answer: text, calls, the fragment with the finish reason, and the
\* usage block when there is one.
FragmentsOf(response) ==
    TextFragments(OrEmpty(response.content))
    \o (IF response.tool_calls # None
        THEN ToolCallFragments(response.tool_calls[1]) ELSE << >>)
    \o (IF response.function_call # None
        THEN FunctionCallFragments(response.function_call[1]) ELSE << >>)
    \o << Delta(Some(FinishReasonOf(response)), None, None, None) >>
    \o (IF response.usage # None THEN << Trailer(response.usage) >> ELSE << >>)

\* A caller invokes a chat model in block mode; invocation A will stream, for
\* the same model and the same prompt, the output the block call returns.
InitBlock ==
    /\ pc = [i \in Invocations |-> IF i = "A" THEN "created" ELSE "idle"]
    /\ handler = [i \in Invocations |-> "chat"]
    /\ locals = [i \in Invocations |-> ChatLocals]
    /\ consumed = [i \in Invocations |-> << >>]
    /\ emitted = [i \in Invocations |-> << >>]
    /\ emittedAt = [i \in Invocations |-> << >>]
    /\ estimatorCalls = [i \in Invocations |-> 0]
    /\ usageCalls = [i \in Invocations |-> 0]
    /\ est = EstUnused
    /\ \E m \in BlockModels :
         LET parameters == ModelParameters(None, None, None, None, None)
         IN /\ model = [i \in Invocations |-> IF i = "A" THEN m ELSE "gpt-4"]
            /\ disp = [used |-> TRUE, model |-> m,
                       prompt_messages |-> PromptMessages,
                       model_parameters |-> parameters, tools |-> << >>,
                       stop |-> << >>, stream |-> FALSE, user |-> None,
                       caller |-> [prompt_messages |-> PromptMessages,
                                   model_parameters |-> parameters],
                       pc |-> "called", requests |-> << >>,
                       remote |-> None, response |-> None, result |-> None,
                       estimator_calls |-> 0, outcome |-> None]

\* Invocation A reads the next fragment of the output.
BlockStreamConsume ==
    /\ disp.used
    /\ disp.response # None
    /\ LET frags == FragmentsOf(disp.response[1])
       IN /\ Len(consumed["A"]) < Len(frags)
          /\ ChatConsumeWith("A", frags[Len(consumed["A"]) + 1], Len(frags))

\* The fragments of the output are exhausted.
BlockStreamExhaust ==
    /\ disp.used
    /\ disp.response # None
    /\ Len(consumed["A"]) = Len(FragmentsOf(disp.response[1]))
    /\ ChatExhaust("A")

NextBlock ==
    \/ DispSend
    \/ DispRemoteFails
    \/ DispRemoteAnswers
    \/ BlockStreamConsume
    \/ BlockStreamExhaust

SpecBlock == InitBlock /\ [][NextBlock]_vars

\* ------------------------------------------------------ fragment objects
\* The aggregator keeps references to objects of the fragments it reads:
\* the legacy buffer is the function_call object of the fragment that
\* opened it (line 1027), and an entry of the index-to-ToolCall map is the
\* tool-call object of the fragment that opened it (line 1044).  What it
\* writes through these references (lines 1019, 1029, 1049-1056) is written
\* to the fragment objects.

\* The fragment objects read so far with their present field values; the
\* position of the fragment whose function_call object is the legacy
\* buffer; and, for each entry of the map, the position of the fragment and
\* of the record in its tool_calls list that is the entry.
NoObjects == [objs |-> << >>, storage_at |-> None, agg_at |-> << >>]

\* Lines 1041-1044 on the tool_calls of the fragment at position n, from
\* its j-th record on: the records that open an entry of the map agg.
\* OwnersAfter continues after the j-th record, whose aggregation gave r.
RECURSIVE NewOwners(_, _, _, _)
RECURSIVE OwnersAfter(_, _, _, _, _)
NewOwners(agg, tool_call_chunks, n, j) ==
    IF j > Len(tool_call_chunks) THEN << >>
    ELSE OwnersAfter(agg, AggregateToolCallChunk(agg, tool_call_chunks[j]),
                     tool_call_chunks, n, j)

OwnersAfter(agg, r, tool_call_chunks, n, j) ==
    IF r.raised THEN << >>
    ELSE (IF Len(r.value) > Len(agg) THEN << << n, j >> >> ELSE << >>)
         \o NewOwners(r.value, tool_call_chunks, n, j + 1)

\* The objects after the aggregator's writes: the object that is the legacy
\* buffer has the buffer's value, the object that is an entry of the map
\* has the entry's value.
WriteThrough(objs, storage_at, agg_at, storage, agg) ==
    [p \in 1..Len(objs) |->
        [objs[p] EXCEPT
           !.tool_calls =
               IF @ = None THEN @
               ELSE Some([j \in 1..Len(@[1]) |->
                            IF \E k \in 1..Len(agg_at) : agg_at[k] = << p, j >>
                            THEN agg[CHOOSE k \in 1..Len(agg_at) :
                                         agg_at[k] = << p, j >>]
                            ELSE @[1][j]]),
           !.function_call = IF storage_at = Some(p) THEN storage ELSE @]]

\* One loop iteration on fragment f that takes the locals from before to
\* after: f is read, the references are updated and the writes land.
ObjectsWritten(h, f, before, after) ==
    LET n == Len(h.objs) + 1
        storage == after.delta_assistant_message_function_call_storage
        storage_at ==
            IF storage = None THEN None
            ELSE IF before.delta_assistant_message_function_call_storage = None
            THEN Some(n)
            ELSE h.storage_at
        agg_at ==
            h.agg_at
            \o (IF f.tool_calls # None /\ f.tool_calls[1] # << >>
                THEN NewOwners(before.aggregated_tool_calls, f.tool_calls[1],
                               n, 1)
                ELSE << >>)
    IN [objs |-> WriteThrough(Append(h.objs, f), storage_at, agg_at, storage,
                              after.aggregated_tool_calls),
        storage_at |-> storage_at,
        agg_at |-> agg_at]

\* The fragment objects frags after the loop of the chat aggregator has run
\* on them from the locals l with the objects h, the first n being read; a
\* fragment that is not read, because the loop raised before, is untouched.
\* ObjectsNext continues after the iteration with result r.
RECURSIVE ObjectsFrom(_, _, _, _, _)
RECURSIVE ObjectsNext(_, _, _, _, _, _)
ObjectsFrom(m, l, h, frags, n) ==
    IF n >= Len(frags) THEN h.objs
    ELSE ObjectsNext(m, l, h, frags, n, ChatStep(m, l, frags[n + 1]))

ObjectsNext(m, l, h, frags, n, r) ==
    IF r.raised
    THEN ObjectsWritten(h, frags[n + 1], l, r.locals).objs
         \o SubSeq(frags, n + 2, Len(frags))
    ELSE ObjectsFrom(m, r.locals, ObjectsWritten(h, frags[n + 1], l, r.locals),
                     frags, n + 1)

\* The fragment objects frags after one run of the chat aggregator on them.
ObjectsAfter(m, frags) == ObjectsFrom(m, ChatLocals, NoObjects, frags, 0)

\* Invocation A reads a stream of fresh fragments; once it has pulled the
\* stream to exhaustion, invocation B is given the same fragment objects,
\* for the same model.
InitReplay ==
    /\ pc = [i \in Invocations |-> "created"]
    /\ handler = [i \in Invocations |-> "chat"]
    /\ \E m \in Models : model = [i \in Invocations |-> m]
    /\ locals = [i \in Invocations |-> ChatLocals]
    /\ consumed = [i \in Invocations |-> << >>]
    /\ emitted = [i \in Invocations |-> << >>]
    /\ emittedAt = [i \in Invocations |-> << >>]
    /\ estimatorCalls = [i \in Invocations |-> 0]
    /\ usageCalls = [i \in Invocations |-> 0]
    /\ est = EstUnused
    /\ disp = DispUnused

\* Invocation A reads a fresh fragment.
ReplayFirstConsume == ChatConsume("A")

\* The upstream of invocation A is exhausted.
ReplayFirstExhaust == ChatExhaust("A")

\* Invocation B reads the next of the fragment objects A has processed.
ReplayConsume ==
    /\ pc["A"] = "done"
    /\ Len(consumed["B"]) < Len(consumed["A"])
    /\ ChatConsumeWith("B",
           ObjectsAfter(model["A"], consumed["A"])[Len(consumed["B"]) + 1],
           Len(consumed["A"]))

\* The replayed fragments are exhausted.
ReplayExhaust ==
    /\ pc["A"] = "done"
    /\ Len(consumed["B"]) = Len(consumed["A"])
    /\ ChatExhaust("B")

NextReplay ==
    \/ ReplayFirstConsume
    \/ ReplayFirstExhaust
    \/ ReplayConsume
    \/ ReplayExhaust

SpecReplay == InitReplay /\ [][NextReplay]_vars

\* ------------------------------- the estimator among other operations
\* One instance serves a caller that asks for estimates of its message
\* objects, hands the same objects to a chat invocation, and runs a
\* streaming invocation whose aggregator asks the estimator itself. Every
\* call of the estimator is recorded with the values of its arguments at
\* the time of the call and with what the call gave.

\* The caller holds a model name, message objects and tools; invocation A
\* is a chat stream on the same instance and model, with the prompt
\* messages PromptMessages and no tools.
InitDet ==
    /\ pc = [i \in Invocations |-> IF i = "A" THEN "created" ELSE "idle"]
    /\ handler = [i \in Invocations |-> "chat"]
    /\ locals = [i \in Invocations |-> ChatLocals]
    /\ consumed = [i \in Invocations |-> << >>]
    /\ emitted = [i \in Invocations |-> << >>]
    /\ emittedAt = [i \in Invocations |-> << >>]
    /\ estimatorCalls = [i \in Invocations |-> 0]
    /\ usageCalls = [i \in Invocations |-> 0]
    /\ disp = DispUnused
    /\ \E m \in { "gpt-4-turbo", "yi-large" }, t \in EstTools,
          l \in { << PromptMessage("user", "",
                         Some(<< ContentPart("text", "a"),
                                 ContentPart("image", "u"),
                                 ContentPart("text", "b") >>),
                         None, << >>, None),
                     AssistantPromptMessage("ok", << >>),
                     UserPromptMessage("hi") >> } :
         /\ model = [i \in Invocations |-> m]
         /\ est = [used |-> TRUE, model |-> m, messages |-> l,
                   objects |-> l, tools |-> t, waiting |-> FALSE,
                   invoked |-> FALSE, history |-> << >>]

\* Lines 304-336: the caller asks for the estimate of its message objects
\* as they are now, of a fresh copy of the messages it started with, or of
\* the prompt messages it gave to invocation A.
DetEstimate ==
    /\ est.used
    /\ Cardinality({ k \in 1..Len(est.history) :
                        est.history[k].who = "caller" }) < MaxCalls
    /\ \E messages \in { est.objects, est.messages, PromptMessages } :
         est' = [est EXCEPT !.history = Append(@,
                   [who |-> "caller", model |-> est.model,
                    messages |-> messages, tools |-> est.tools,
                    after |-> est.invoked,
                    result |-> EstimateCall(est, est.model, messages,
                                            est.tools)])]
    /\ UNCHANGED << streamVars, disp >>

\* Lines 645-754: the caller hands its message objects to a streaming chat
\* invocation whose result it never pulls. Up to the call of the endpoint
\* _clear_illegal_prompt_messages (line 727, lines 1206-1218) has written
\* into the objects; the call then waits for the endpoint, unless an
\* error left _chat_generate before the request was sent.
DetInvokeSend ==
    /\ est.used
    /\ ~est.invoked
    /\ ~est.waiting
    /\ \E sent \in { ChatGenerate(est.model, est.objects,
                          ModelParameters(None, None, None, None, None),
                          est.tools, << >>, TRUE, None) } :
         est' = [est EXCEPT
                   !.waiting = (sent.error = None),
                   !.invoked = (sent.error # None),
                   !.objects = sent.prompt_messages]
    /\ UNCHANGED << streamVars, disp >>

\* Lines 755-768: the endpoint answers and _chat_generate returns the
\* generator, or the endpoint fails and the error leaves _chat_generate.
\* Either way the invocation is over (invoked), nothing is written after
\* the wait and the objects stay as they were written before it.
DetInvokeOver ==
    /\ est.used
    /\ est.waiting
    /\ est' = [est EXCEPT !.waiting = FALSE, !.invoked = TRUE]
    /\ UNCHANGED << streamVars, disp >>

\* Lines 1109-1128: invocation A's upstream is exhausted; the calls of the
\* estimator the aggregator makes (1110 with the prompt messages, 1118 with
\* the accumulated output) are recorded with what they gave: the count
\* bound to the local, or the error that left the generator; after a call
\* that raised no other call is made.
DetStreamExhaust ==
    /\ est.used
    /\ ChatFinishStep("A")
    /\ LET l == locals["A"]
           Call(messages, result) ==
               [who |-> "aggregator", model |-> model["A"],
                messages |-> messages, tools |-> << >>,
                after |-> est.invoked,
                result |-> result]
       IN est' = [est EXCEPT !.history =
                    @ \o (IF l.prompt_tokens = 0
                          THEN << Call(PromptMessages,
                                       ChatFinishPrompt(model["A"], l)) >>
                          ELSE << >>)
                      \o (IF l.completion_tokens = 0
                             /\ ~ChatFinishPrompt(model["A"], l).raised
                          THEN << Call(<< FullAssistantPromptMessage(l) >>,
                                       ChatFinishCompletion(model["A"], l)) >>
                          ELSE << >>)]
    /\ UNCHANGED disp

NextDet ==
    \/ ChatConsumeTwo("A")
    \/ DetStreamExhaust
    \/ DetEstimate
    \/ DetInvokeSend
    \/ DetInvokeOver

SpecDet == InitDet /\ [][NextDet]_vars

Last(seq) == seq[Len(seq)]

\* The upstream of invocation i was read to its end.
Exhausted(i) == pc[i] \in { "done", "raised_estimating" }

\* Positions of the chunks of invocation i that were yielded inside the loop.
IncrementalPositions(i) ==
    IF pc[i] = "done" THEN 1..(Len(emitted[i]) - 1) ELSE 1..Len(emitted[i])

\* The fragment is a terminal one for the model: it has a choice and a
\* finish reason the aggregator recognises.
IsTerminalFragment(m, f) ==
    f.nchoices = 1 /\ HasFinishReason(m, f.finish_reason)

\* ------------------------------------------------------------------- C1

\* C1 (as claimed): once the upstream of a stream handler is exhausted, the
\* consumer has received exactly one chunk with non-null usage, that chunk
\* is the last one, and every earlier chunk has usage null.
C1_OneUsageChunkLast ==
    \A i \in Invocations :
        Exhausted(i) =>
            /\ Len(emitted[i]) >= 1
            /\ Last(emitted[i]).usage # None
            /\ \A k \in 1..(Len(emitted[i]) - 1) : emitted[i][k].usage = None

\* ------------------------------------------------------------------- C2

\* The position of the last terminal fragment of frags, 0 when there is none.
LastTerminal(m, frags) ==
    LET ks == { k \in 1..Len(frags) : IsTerminalFragment(m, frags[k]) }
    IN IF ks = { } THEN 0 ELSE CHOOSE k \in ks : \A j \in ks : j <= k

\* C2 (as claimed): when a chat stream ends and some consumed fragment
\* carried a finish reason, the final, usage-bearing chunk carries the
\* finish reason of the last such fragment.
C2_FinalChunkCarriesFinishReason ==
    \A i \in Invocations :
        (handler[i] = "chat" /\ pc[i] = "done"
         /\ LastTerminal(model[i], consumed[i]) > 0) =>
            Last(emitted[i]).finish_reason =
                consumed[i][LastTerminal(model[i], consumed[i])].finish_reason

\* ------------------------------------------------------------------- C3

\* All ChoiceDeltaToolCall records of frags, in arrival order.
RECURSIVE ToolCallChunksOf(_)
ToolCallChunksOf(frags) ==
    IF frags = << >> THEN << >>
    ELSE (IF Head(frags).nchoices = 1 /\ Head(frags).tool_calls # None
          THEN Head(frags).tool_calls[1] ELSE << >>)
         \o ToolCallChunksOf(Tail(frags))

\* Concatenation of the argument strings sent for index, in arrival order.
RECURSIVE ArgumentsSent(_, _)
ArgumentsSent(tcs, index) ==
    IF tcs = << >> THEN ""
    ELSE (IF Head(tcs).index = index /\ Head(tcs).function # None
          THEN OrEmpty(Head(tcs).function[1].arguments) ELSE "")
         \o ArgumentsSent(Tail(tcs), index)

\* The most recent non-empty id / type / function name sent for index.
RECURSIVE LatestId(_, _)
LatestId(tcs, index) ==
    IF tcs = << >> THEN ""
    ELSE IF Last(tcs).index = index /\ Truthy(Last(tcs).id)
    THEN Last(tcs).id[1]
    ELSE LatestId(SubSeq(tcs, 1, Len(tcs) - 1), index)

RECURSIVE LatestType(_, _)
LatestType(tcs, index) ==
    IF tcs = << >> THEN ""
    ELSE IF Last(tcs).index = index /\ Truthy(Last(tcs).type)
    THEN Last(tcs).type[1]
    ELSE LatestType(SubSeq(tcs, 1, Len(tcs) - 1), index)

RECURSIVE LatestName(_, _)
LatestName(tcs, index) ==
    IF tcs = << >> THEN ""
    ELSE IF Last(tcs).index = index /\ Last(tcs).function # None
            /\ Truthy(Last(tcs).function[1].name)
    THEN Last(tcs).function[1].name[1]
    ELSE LatestName(SubSeq(tcs, 1, Len(tcs) - 1), index)

EntryArguments(e) ==
    IF e.function = None THEN "" ELSE OrEmpty(e.function[1].arguments)

EntryName(e) ==
    IF e.function = None THEN "" ELSE OrEmpty(e.function[1].name)

\* C3 (as claimed): after any sequence of tool-call fragments, every entry
\* of the index-to-ToolCall map holds the concatenation, in arrival order,
\* of all argument strings sent for its index, and the most recent
\* non-empty id, type and function name sent for it.
C3_MergeKeepsEverythingSent ==
    \A i \in Invocations :
        (handler[i] = "chat" /\ pc[i] # "raised") =>
            LET sent == ToolCallChunksOf(consumed[i])
                agg == locals[i].aggregated_tool_calls
            IN \A k \in 1..Len(agg) :
                  /\ EntryArguments(agg[k]) = ArgumentsSent(sent, agg[k].index)
                  /\ OrEmpty(agg[k].id) = LatestId(sent, agg[k].index)
                  /\ OrEmpty(agg[k].type) = LatestType(sent, agg[k].index)
                  /\ EntryName(agg[k]) = LatestName(sent, agg[k].index)

\* ------------------------------------------------------------------- C4

\* A legacy start fragment: only a function_call, with a function name.
IsLegacyStart(f) ==
    /\ f.nchoices = 1 /\ f.finish_reason = None /\ ~Truthy(f.content)
    /\ f.tool_calls = None /\ f.function_call # None
    /\ Truthy(f.function_call[1].name)

\* A legacy continuation fragment: only a function_call, only arguments.
IsLegacyContinuation(f) ==
    /\ f.nchoices = 1 /\ f.finish_reason = None /\ ~Truthy(f.content)
    /\ f.tool_calls = None /\ f.function_call # None
    /\ f.function_call[1].name = None
    /\ f.function_call[1].arguments # None

\* A fragment carrying the finish reason and no call payload.
IsFinishOnly(m, f) ==
    IsTerminalFragment(m, f) /\ f.tool_calls = None /\ f.function_call = None

\* [start, continuation, ..., continuation]
IsLegacyPrefix(frags) ==
    /\ Len(frags) >= 1
    /\ IsLegacyStart(frags[1])
    /\ \A k \in 2..Len(frags) : IsLegacyContinuation(frags[k])

\* [start, continuation, ..., continuation, finish]
IsLegacySequence(m, frags) ==
    /\ Len(frags) >= 2
    /\ IsLegacyPrefix(SubSeq(frags, 1, Len(frags) - 1))
    /\ IsFinishOnly(m, Last(frags))

\* a0 + a1 + ... + ak over the function_call fragments of frags.
RECURSIVE LegacyArguments(_)
LegacyArguments(frags) ==
    IF frags = << >> THEN ""
    ELSE (IF Head(frags).function_call # None
          THEN OrEmpty(Head(frags).function_call[1].arguments) ELSE "")
         \o LegacyArguments(Tail(frags))

\* C4: for the fragments [start(f, a0), continuations a1..ak, finish], no
\* chunk is emitted and no call is completed while only the start and the
\* continuations have been processed (the upstream not yet at its end);
\* once the finish fragment is processed
\* exactly one completed ToolCall, named f with arguments a0+a1+...+ak, has
\* resulted, the buffer is empty, and no chunk was emitted before that
\* fragment.
C4_LegacyBuffering ==
    \A i \in Invocations :
        handler[i] = "chat" =>
            /\ (IsLegacyPrefix(consumed[i]) /\ ~Exhausted(i)) =>
                  /\ emitted[i] = << >>
                  /\ locals[i].final_tool_calls = << >>
            /\ IsLegacySequence(model[i], consumed[i]) =>
                  /\ locals[i].final_tool_calls =
                        << ToolCall(consumed[i][1].function_call[1].name[1],
                                    "function",
                                    consumed[i][1].function_call[1].name[1],
                                    LegacyArguments(consumed[i])) >>
                  /\ locals[i].delta_assistant_message_function_call_storage
                        = None
                  /\ \A k \in 1..Len(emitted[i]) :
                        emittedAt[i][k] >= Len(consumed[i])

\* C4 witness: start(f, "{"), continuation "}", finish have been processed
\* and the one completed call is f("{}").
C4_Witness ==
    /\ IsLegacySequence(model["A"], consumed["A"])
    /\ Len(consumed["A"]) = 3
    /\ locals["A"].final_tool_calls = << ToolCall("f", "function", "f", "{}") >>

\* ------------------------------------------------------------------- C5

\* The position of the last zero-choices fragment with a usage block, or 0.
LastUsageBlock(frags) ==
    LET ks == { k \in 1..Len(frags) :
                  frags[k].nchoices = 0 /\ frags[k].usage # None }
    IN IF ks = { } THEN 0 ELSE CHOOSE k \in ks : \A j \in ks : j <= k

\* C5 (as claimed): when a usage block was captured during a chat stream,
\* the final chunk reports exactly the captured counts and the estimator
\* was not invoked.
C5_CapturedUsageReported ==
    \A i \in Invocations :
        (handler[i] = "chat" /\ pc[i] = "done"
         /\ LastUsageBlock(consumed[i]) > 0) =>
            LET block == consumed[i][LastUsageBlock(consumed[i])].usage[1]
                usage == Last(emitted[i]).usage[1]
            IN /\ usage.prompt_tokens = block.prompt_tokens
               /\ usage.completion_tokens = block.completion_tokens
               /\ estimatorCalls[i] = 0

\* ------------------------------------------------------------------- C6

\* C6 (as claimed): a chat stream on a model without accounting convention
\* whose upstream sent no usage still ends with the usage-bearing chunk; no
\* error leaves the chunk sequence.
C6_UnsupportedModelStillFinishes ==
    \A i \in Invocations :
        (handler[i] = "chat" /\ ~SupportedModel(model[i]) /\ Exhausted(i)
         /\ LastUsageBlock(consumed[i]) = 0) =>
            /\ pc[i] = "done"
            /\ Last(emitted[i]).usage # None

\* ------------------------------------------------------------------- C7

\* C7: a step that reads a fragment with zero choices emits no chunk and
\* leaves the locals unchanged, except that a usage block sets the running
\* prompt and completion counts to its values.
C7_UsageOnlyFragment ==
    [][ \A i \in Invocations :
          (Len(consumed'[i]) = Len(consumed[i]) + 1
           /\ Last(consumed'[i]).nchoices = 0) =>
             LET f == Last(consumed'[i])
             IN /\ emitted'[i] = emitted[i]
                /\ pc'[i] = "running"
                /\ locals'[i] =
                     IF f.usage # None
                     THEN [locals[i] EXCEPT
                             !.prompt_tokens = f.usage[1].prompt_tokens,
                             !.completion_tokens = f.usage[1].completion_tokens]
                     ELSE locals[i] ]_vars

\* C7 witness: a usage trailer was read after content and a pending legacy
\* call: the counts are the block's, the accumulators are intact and only
\* the content chunk was emitted.
C7_Witness ==
    /\ handler["A"] = "chat"
    /\ Len(consumed["A"]) = 3
    /\ Last(consumed["A"]) = Trailer(Some(WireUsage(7, 3)))
    /\ locals["A"].prompt_tokens = 7
    /\ locals["A"].completion_tokens = 3
    /\ locals["A"].full_assistant_content = "a"
    /\ locals["A"].delta_assistant_message_function_call_storage # None
    /\ Len(emitted["A"]) = 1

\* ------------------------------------------------------------------- C8

\* One loop iteration of handler h.
HandlerStep(h, m, l, f) == IF h = "chat" THEN ChatStep(m, l, f) ELSE GenStep(l, f)

\* The loop of handler h run on frags from the locals l: the locals it
\* ends with, the chunks it yields in order, and whether it raised.
RECURSIVE RunLoop(_, _, _, _)
RunLoop(h, m, l, frags) ==
    IF frags = << >> THEN [locals |-> l, outs |-> << >>, raised |-> FALSE]
    ELSE LET r == HandlerStep(h, m, l, Head(frags))
         IN IF r.raised
            THEN [locals |-> r.locals, outs |-> r.out, raised |-> TRUE]
            ELSE LET rest == RunLoop(h, m, r.locals, Tail(frags))
                 IN [locals |-> rest.locals, outs |-> r.out \o rest.outs,
                     raised |-> rest.raised]

\* The chunks the loop of handler h yields on frags from the locals l, each
\* with the position of the fragment whose iteration yielded it; the first
\* n fragments of frags were read before.  RunLoopAfter continues after the
\* iteration on the fragment at position n with result r.
RECURSIVE RunLoopFrom(_, _, _, _, _)
RECURSIVE RunLoopAfter(_, _, _, _, _)
RunLoopFrom(h, m, l, frags, n) ==
    IF n >= Len(frags) THEN << >>
    ELSE RunLoopAfter(h, m, HandlerStep(h, m, l, frags[n + 1]), frags, n + 1)

RunLoopAfter(h, m, r, frags, n) ==
    [j \in 1..Len(r.out) |-> [at |-> n, chunk |-> r.out[j]]]
        \o (IF r.raised THEN << >> ELSE RunLoopFrom(h, m, r.locals, frags, n))

\* C8: the incremental chunks are emitted in the order of their fragments:
\* the k-th chunk was emitted while its fragment was the last one read,
\* later chunks belong to later fragments, and the k-th chunk is exactly
\* what the fragments read up to then produce as their k-th chunk (the
\* fragments before it produce k - 1 chunks, the fragments up to it k), so
\* it reflects no later fragment.
C8_ChunksInFragmentOrder ==
    \A i \in Invocations :
        \A produced \in { RunLoopFrom(handler[i], model[i],
                                      InitLocals(handler[i]), consumed[i], 0) } :
            \A k \in IncrementalPositions(i) :
                /\ emittedAt[i][k] \in 1..Len(consumed[i])
                /\ k > 1 => emittedAt[i][k - 1] < emittedAt[i][k]
                /\ k <= Len(produced)
                /\ produced[k] = [at |-> emittedAt[i][k], chunk |-> emitted[i][k]]
                /\ k > 1 => produced[k - 1].at < emittedAt[i][k]
                /\ k < Len(produced) => produced[k + 1].at > emittedAt[i][k]

\* C8 witness: three fragments, three chunks yielded inside the loop, in
\* fragment order: content "a", content "b", the terminal tool-call chunk.
C8_Witness ==
    /\ handler["A"] = "chat"
    /\ pc["A"] = "yielded"
    /\ emittedAt["A"] = << 1, 2, 3 >>
    /\ emitted["A"][1].content = "a"
    /\ emitted["A"][2].content = "b"
    /\ emitted["A"][3].finish_reason = Some("tool_calls")

\* ------------------------------------------------------------------- C9

\* C9: as long as the upstream of an invocation has not been exhausted, in
\* particular when the consumer has stopped pulling, no delivered chunk
\* has usage and neither the estimator nor the usage calculation has run.
C9_NoUsageBeforeExhaustion ==
    \A i \in Invocations :
        ~Exhausted(i) =>
            /\ \A k \in 1..Len(emitted[i]) : emitted[i][k].usage = None
            /\ estimatorCalls[i] = 0
            /\ usageCalls[i] = 0

\* C9 witness: the consumer abandoned a chat stream after two chunks, with
\* a usage block already captured from the wire.
C9_Witness ==
    /\ handler["A"] = "chat"
    /\ pc["A"] = "abandoned"
    /\ Len(emitted["A"]) = 2
    /\ locals["A"].prompt_tokens = 7

\* ------------------------------------------------------------------ C10

\* Invocation i run alone on the fragments it has read, and the chunks that
\* run produces up to the invocation's present position.
AloneRun(i) == RunLoop("chat", model[i], ChatLocals, consumed[i])

ChunksAlone(i, r) ==
    r.outs \o (IF pc[i] = "done"
               THEN << ChatFinalChunk(model[i], r.locals) >> ELSE << >>)

\* C10: under any interleaving of the pulls of two invocations, and any
\* abandonment, each invocation has delivered exactly the chunks it
\* produces alone, and raises exactly when it raises alone.
C10_InvocationsIndependent ==
    \A i \in Invocations :
        LET r == AloneRun(i)
        IN /\ emitted[i] = ChunksAlone(i, r)
           /\ (pc[i] = "raised") = r.raised
           /\ (pc[i] = "raised_estimating") =>
                 ChatFinishRaises(model[i], r.locals)

\* C10 witness: A was abandoned mid-stream with text accumulated and a
\* tool call aggregated, and B ran to its final chunk.
C10_Witness ==
    /\ pc["A"] = "abandoned"
    /\ locals["A"].full_assistant_content # ""
    /\ locals["A"].aggregated_tool_calls # << >>
    /\ pc["B"] = "done"
    /\ Len(emitted["B"]) = 3

\* ===================================================================
\* Token estimator and message codec
\* ===================================================================

\* The calls of the estimator on the caller's own arguments.
OwnCalls == { k \in 1..Len(est.history) : ~est.history[k].other }

\* The caller's calls that were answered by estimate_messages
\* (_num_tokens_from_messages): those for a model of chat mode.
MessageEstimates ==
    IF GetModelMode(est.model) = "chat" THEN OwnCalls ELSE { }

\* ------------------------------------------------------------------ C11

RECURSIVE WithoutToolCalls(_)
WithoutToolCalls(messages) ==
    IF messages = << >> THEN << >>
    ELSE << [Head(messages) EXCEPT !.tool_calls = << >>] >>
         \o WithoutToolCalls(Tail(messages))

HasToolCalls(messages) ==
    \E k \in 1..Len(messages) :
        messages[k].role = "assistant" /\ messages[k].tool_calls # << >>

\* C11: the estimate of messages with a non-empty tool call on an assistant
\* message is strictly greater than the estimate of the same messages with
\* the tool calls removed.
C11_ToolCallsContribute ==
    est.used =>
      \A k \in MessageEstimates :
        (HasToolCalls(est.messages) /\ ~est.history[k].result.raised) =>
          est.history[k].result.value >
            NumTokensFromMessagesWithTools(est.model,
                WithoutToolCalls(est.messages), est.tools).value

\* ------------------------------------------------------------------ C12

\* Models of the current accounting convention.
CurrentConventionModels ==
    { "gpt-4", "o3-mini", "chatgpt-4o-latest", "ft:gpt-3.5-turbo:acme" }

\* The call is for a single user message with plain text, no name, no tools.
SinglePlainUserMessage ==
    /\ est.used
    /\ est.model \in CurrentConventionModels
    /\ Len(est.messages) = 1
    /\ est.messages[1].role = "user"
    /\ est.messages[1].parts = None
    /\ est.messages[1].name = None
    /\ est.tools = << >>

\* C12 as stated: the estimate of a single plain user message with text t is
\* exactly tokens_per_message (3) + |encode(t)| + 0 + priming (3).
C12_SingleUserMessage ==
    SinglePlainUserMessage =>
      \A k \in OwnCalls :
        est.history[k].result = Ok(3 + Enc(est.messages[1].content) + 0 + 3)

\* C12 amended: the estimate is exactly tokens_per_message (3) + the tokens
\* of the role value "user" + |encode(t)| + 0 + priming (3).
C12_SingleUserMessageWithRole ==
    SinglePlainUserMessage =>
      \A k \in OwnCalls :
        est.history[k].result =
          Ok(3 + Enc("user") + Enc(est.messages[1].content) + 0 + 3)

\* C12 witness: the estimate of the single message "hi" was returned.
C12_Witness ==
    /\ SinglePlainUserMessage
    /\ est.model = "gpt-4"
    /\ est.messages[1].content = "hi"
    /\ OwnCalls # { }
    /\ \A k \in OwnCalls : est.history[k].result = Ok(12)

\* ------------------------------------------------------------------ C13

RECURSIVE TextParts(_)
TextParts(parts) ==
    IF parts = << >> THEN << >>
    ELSE (IF Head(parts).type \in { "image", "audio" } THEN << >>
          ELSE << Head(parts) >>)
         \o TextParts(Tail(parts))

\* The messages with every image and audio part removed.
RECURSIVE WithoutImagesAndAudio(_)
WithoutImagesAndAudio(messages) ==
    IF messages = << >> THEN << >>
    ELSE LET msg == Head(messages)
         IN << IF msg.parts = None THEN msg
               ELSE [msg EXCEPT !.parts = Some(TextParts(msg.parts[1]))] >>
            \o WithoutImagesAndAudio(Tail(messages))

\* C13: the estimate equals the estimate of the same messages with every
\* image and audio part removed.
C13_OnlyTextPartsCount ==
    est.used =>
      \A k \in MessageEstimates :
        est.history[k].result =
          NumTokensFromMessagesWithTools(est.model,
              WithoutImagesAndAudio(est.messages), est.tools)

\* C13 witness: a user message of one text part "ab" and one image part was
\* estimated, and only the two tokens of the text were counted.
C13_Witness ==
    /\ est.used
    /\ est.model = "gpt-4"
    /\ est.tools = << >>
    /\ Len(est.messages) = 1
    /\ est.messages[1].parts =
          Some(<< ContentPart("text", "ab"), ContentPart("image", "u") >>)
    /\ OwnCalls # { }
    /\ \A k \in OwnCalls :
          est.history[k].result = Ok(3 + Enc("user") + 2 + 3)

\* ------------------------------------------------------------------ C14

NoConventionModels == { "yi-large", "ft:yi-large:acme" }

\* C15: the estimator raises the unsupported-model error exactly for the
\* models of no known family, and returns no integer for them.
C15_UnsupportedModelRaises ==
    est.used =>
      \A k \in MessageEstimates :
        /\ (est.history[k].result = Raised("NotImplementedError"))
             = (est.model \in NoConventionModels)
        /\ est.model \in NoConventionModels => est.history[k].result.raised

\* C15 witness: the estimator raised for a fine-tuned model of no known
\* family.
C15_Witness ==
    /\ est.used
    /\ est.model = "ft:yi-large:acme"
    /\ OwnCalls # { }
    /\ \A k \in OwnCalls :
          est.history[k].result = Raised("NotImplementedError")

\* ------------------------------------------------------------------ C16

\* C16: the wire record of a System, User or Assistant message with a name
\* carries that name; the wire record of a Tool message carries no name.
C16_NameExceptTool ==
    (est.used /\ est.wire # None) =>
      \A k \in 1..Len(est.messages) :
        LET msg == est.messages[k]
            d == est.wire[1][k]
        IN /\ (msg.role \in { "system", "user", "assistant" }
               /\ Truthy(msg.name))
                 => (~d.raised /\ d.value.name = msg.name)
           /\ msg.role = "tool" => (~d.raised /\ d.value.name = None)

\* C16 witness: a Tool message with a name and a User message with a name
\* went through the codec.
C16_Witness ==
    /\ est.used
    /\ est.wire # None
    /\ Len(est.messages) = 2
    /\ est.messages[1].role = "tool"
    /\ est.messages[1].name = Some("t")
    /\ est.messages[2].role = "user"
    /\ est.wire[1][2].value.name = Some("bob")

\* ============================================================ dispatcher

\* The requests of this invocation on one endpoint.
RequestsOn(endpoint) ==
    { k \in 1..Len(disp.requests) : disp.requests[k].endpoint = endpoint }

\* ------------------------------------------------------------------ C17

\* The caller asks for the json_schema response format and supplies no
\* schema, an empty one, or one that is not JSON.
MalformedSchemaRequest ==
    /\ disp.used
    /\ disp.caller.model_parameters.response_format
         = Some(FormatName("json_schema"))
    /\ \/ disp.caller.model_parameters.json_schema = None
       \/ disp.caller.model_parameters.json_schema[1] \notin { "{}", "[1]" }

\* C17: a chat invocation whose response format is json_schema and whose
\* schema is missing or is not parseable JSON raises ValueError to the
\* caller, and no request is sent to the remote service.
C17_MalformedSchemaFailsFast ==
    MalformedSchemaRequest =>
      /\ disp.requests = << >>
      /\ disp.pc \in { "called", "raised" }
      /\ disp.pc = "raised"
           => disp.outcome = Some([kind |-> "raised", error |-> "ValueError"])

\* C17 witness: the dispatcher has run on a json_schema request whose
\* schema does not parse, and has raised.
C17_Witness ==
    /\ MalformedSchemaRequest
    /\ disp.caller.model_parameters.json_schema = Some("{bad")
    /\ disp.pc = "raised"
    /\ disp.requests = << >>

\* ------------------------------------------------------------------ C18

\* C18: an invocation issues at most one request, and when that request
\* raises, the caller gets that same error, after that one request.
C18_NoRetryNoWrapping ==
    disp.used =>
      /\ Len(disp.requests) <= 1
      /\ disp.remote # None
           => /\ Len(disp.requests) = 1
              /\ disp.pc = "raised"
              /\ disp.outcome
                   = Some([kind |-> "raised", error |-> disp.remote[1]])

\* C18 witness: the one request of an invocation raised RateLimitError and
\* the invocation has ended.
C18_Witness ==
    /\ disp.used
    /\ disp.remote = Some("RateLimitError")
    /\ disp.pc = "raised"
    /\ Len(disp.requests) = 1

\* ------------------------------------------------------------------ C19

\* The chat-mode models of the reasoning family, fine-tuned ones included,
\* by the name of their base model.
ReasoningFamily(model_name) ==
    LET base == FineTuneBase(model_name)
    IN \E p \in { "o1", "o3", "o4" } :
         Len(base) >= 2 /\ SubSeq(base, 1, 2) = p

\* C19: the chat request of a reasoning-family model carries the caller's
\* token limit as max_completion_tokens, never max_tokens, and no stop;
\* the chat request of another model carries max_tokens and stop as given.
C19_ReasoningModelRequest ==
    disp.used =>
      \A k \in RequestsOn("chat.completions") :
        LET r == disp.requests[k]
            given == disp.caller.model_parameters
        IN IF ReasoningFamily(disp.model)
           THEN /\ r.model_parameters.max_tokens = None
                /\ given.max_tokens # None
                     => r.model_parameters.max_completion_tokens
                          = given.max_tokens
                /\ r.stop = None
           ELSE /\ r.model_parameters.max_tokens = given.max_tokens
                /\ r.stop = IF disp.stop = << >> THEN None
                            ELSE Some(disp.stop)

\* ------------------------------------------------------------------ C20

\* The text of a message: its string content, or the text parts of its
\* list content, one per line.
MessageText(m) == IF m.parts = None THEN m.content ELSE JoinTextParts(m.parts[1])

\* One role-prefixed entry per message whose role has a prefix, in message
\* order, joined by blank lines.
RECURSIVE PrefixedLines(_, _)
PrefixedLines(messages, started) ==
    IF messages = << >> THEN ""
    ELSE LET m == Head(messages)
         IN IF m.role \in { "user", "assistant", "tool" }
            THEN (IF started THEN "\n\n" ELSE "")
                 \o m.role \o ": " \o MessageText(m)
                 \o PrefixedLines(Tail(messages), TRUE)
            ELSE PrefixedLines(Tail(messages), started)

\* C20: the request on the responses endpoint has as input one
\* role-prefixed entry per user, assistant or tool message, in order,
\* joined by blank lines, the other messages left out; and its token limit
\* is under max_output_tokens only.
C20_AlternateEndpointRequest ==
    disp.used =>
      \A k \in RequestsOn("responses") :
        LET r == disp.requests[k]
            given == disp.caller.model_parameters
        IN /\ r.payload = [input |-> PrefixedLines(disp.caller.prompt_messages,
                                                   FALSE)]
           /\ r.model_parameters.max_tokens = None
           /\ r.model_parameters.max_completion_tokens = None
           /\ given.max_tokens # None
                => r.model_parameters.max_output_tokens = given.max_tokens

\* ==================================== chat stream aggregator, continued

\* Invocation i reads one fragment in this step.
ReadsFragment(i) == Len(consumed'[i]) = Len(consumed[i]) + 1

\* The entries of the index-to-ToolCall map as completed calls, one per
\* entry, in the order the indices were first seen.
CompletedCalls(agg) ==
    [k \in 1..Len(agg) |->
        ToolCall(OrEmpty(agg[k].id), OrEmpty(agg[k].type),
                 EntryName(agg[k]), EntryArguments(agg[k]))]

\* The tool calls of all chunks delivered to the consumer of invocation i.
RECURSIVE ToolCallsOfChunks(_)
ToolCallsOfChunks(chunks) ==
    IF chunks = << >> THEN << >>
    ELSE Head(chunks).tool_calls \o ToolCallsOfChunks(Tail(chunks))

\* ------------------------------------------------------------------ C22

\* C22 (as claimed): a step that reads a fragment whose finish reason is
\* "tool_calls" emits, for every model, exactly one chunk, with finish
\* reason "tool_calls" and with every entry of the index-to-ToolCall map
\* as its tool calls, each once, in first-seen index order.
C22_TerminalToolCallChunk ==
    [][ \A i \in Invocations :
          (handler[i] = "chat" /\ ReadsFragment(i)
           /\ Last(consumed'[i]).nchoices = 1
           /\ Last(consumed'[i]).finish_reason = Some("tool_calls")) =>
             /\ Len(emitted'[i]) = Len(emitted[i]) + 1
             /\ Last(emitted'[i]).finish_reason = Some("tool_calls")
             /\ Last(emitted'[i]).tool_calls
                  = CompletedCalls(locals'[i].aggregated_tool_calls) ]_vars

\* ------------------------------------------------------------------ C23

\* C23 (as claimed): the terminal tool-call chunk is the last chunk emitted
\* inside the loop: after it the consumer receives no incremental chunk and
\* no second terminal tool-call chunk, only the usage-bearing final chunk.
C23_NothingAfterTerminalChunk ==
    \A i \in Invocations :
        handler[i] = "chat" =>
            \A k \in IncrementalPositions(i) :
                emitted[i][k].finish_reason = Some("tool_calls")
                    => \A j \in IncrementalPositions(i) : j <= k

\* ------------------------------------------------------------------ C24

\* C24 (as claimed): a step that reads a fragment with a finish reason and
\* no tool_calls while the legacy buffer holds a call flushes that call,
\* with the fragment's own arguments appended, as one completed call,
\* empties the buffer and records the finish reason for the final chunk.
C24_FinishReasonClosesBuffer ==
    [][ \A i \in Invocations :
          (handler[i] = "chat" /\ ReadsFragment(i)
           /\ IsTerminalFragment(model[i], Last(consumed'[i]))
           /\ Last(consumed'[i]).tool_calls = None
           /\ locals[i].delta_assistant_message_function_call_storage # None) =>
             LET f == Last(consumed'[i])
                 held == locals[i].delta_assistant_message_function_call_storage[1]
                 own == IF f.function_call = None THEN ""
                        ELSE OrEmpty(f.function_call[1].arguments)
             IN /\ locals'[i].delta_assistant_message_function_call_storage
                     = None
                /\ locals'[i].final_tool_calls
                     = Append(locals[i].final_tool_calls,
                              ToolCall(OrEmpty(held.name), "function",
                                       OrEmpty(held.name),
                                       OrEmpty(held.arguments) \o own))
                /\ f.finish_reason # Some("tool_calls")
                     => locals'[i].final_chunk.finish_reason = f.finish_reason
      ]_vars

\* ------------------------------------------------------------------ C25

\* C25 (as claimed): while the legacy buffer holds a call for function f, a
\* step that reads a fragment whose function_call names another function
\* flushes the call for f with the arguments accumulated so far, and the
\* fragment's arguments are not appended to the arguments of f.
C25_NewFunctionClosesPrevious ==
    [][ \A i \in Invocations :
          (handler[i] = "chat" /\ ReadsFragment(i)
           /\ Last(consumed'[i]).nchoices = 1
           /\ Last(consumed'[i]).tool_calls = None
           /\ Last(consumed'[i]).function_call # None
           /\ Truthy(Last(consumed'[i]).function_call[1].name)
           /\ locals[i].delta_assistant_message_function_call_storage # None
           /\ locals[i].delta_assistant_message_function_call_storage[1].name
                # Last(consumed'[i]).function_call[1].name) =>
             LET held == locals[i].delta_assistant_message_function_call_storage[1]
                 now == locals'[i].delta_assistant_message_function_call_storage
             IN /\ locals'[i].final_tool_calls
                     = Append(locals[i].final_tool_calls,
                              ToolCall(OrEmpty(held.name), "function",
                                       OrEmpty(held.name),
                                       OrEmpty(held.arguments)))
                /\ now # None => now[1].name # held.name ]_vars

\* ------------------------------------------------------------------ C26

\* A finish reason that counts as none: null, or for the "yi-" family a
\* value that starts with none of length, stop, content_filter.
CountsAsNoFinishReason(m, finish_reason) ==
    \/ finish_reason = None
    \/ /\ Len(m) >= 3 /\ SubSeq(m, 1, 3) = "yi-"
       /\ \A p \in { "length", "stop", "content_filter" } :
            ~(Len(finish_reason[1]) >= Len(p)
              /\ SubSeq(finish_reason[1], 1, Len(p)) = p)

\* A fragment with one choice that carries nothing.
CarriesNothing(m, f) ==
    /\ f.nchoices = 1
    /\ CountsAsNoFinishReason(m, f.finish_reason)
    /\ f.content \in { None, Some("") }
    /\ f.tool_calls = None
    /\ f.function_call = None

\* C26: a step that reads a fragment with no finish reason, no content, no
\* tool_calls and no function_call emits no chunk and leaves the text
\* accumulator, the tool-call map, the legacy buffer, the usage counters
\* and the held final chunk as they were; for the "yi-" family a finish
\* reason outside its terminal prefixes counts as no finish reason.
C26_KeepAlive ==
    [][ \A i \in Invocations :
          (handler[i] = "chat" /\ ReadsFragment(i)
           /\ CarriesNothing(model[i], Last(consumed'[i]))) =>
             /\ emitted'[i] = emitted[i]
             /\ locals'[i] = locals[i]
             /\ pc'[i] = "running" ]_vars

\* C26 witness: a "yi-" stream holds a legacy call, has emitted a content
\* chunk, and has then read a fragment whose finish reason "tool_calls" is
\* outside the family's prefixes: nothing more was emitted and the buffer
\* and the text are intact.
C26_Witness ==
    /\ handler["A"] = "chat"
    /\ model["A"] = "yi-large"
    /\ pc["A"] = "running"
    /\ Len(consumed["A"]) = 3
    /\ Last(consumed["A"]) = Delta(Some("tool_calls"), None, None, None)
    /\ locals["A"].delta_assistant_message_function_call_storage
         = Some(Fn(Some("f"), Some("{")))
    /\ locals["A"].full_assistant_content = "a"
    /\ Len(emitted["A"]) = 1

\* ------------------------------------------------------------------ C27

\* The concatenation, in order, of the content of the fragments.
RECURSIVE ContentOf(_)
ContentOf(frags) ==
    IF frags = << >> THEN ""
    ELSE (IF Head(frags).nchoices = 1 THEN OrEmpty(Head(frags).content) ELSE "")
         \o ContentOf(Tail(frags))

\* No fragment of frags carries a legacy function_call.
NoLegacyFragments(frags) ==
    \A k \in 1..Len(frags) : frags[k].function_call = None

\* C27 (as claimed): when the upstream is exhausted and the completion
\* count comes from the estimator, the output handed to it has as text the
\* concatenation of the content of all fragments and as tool calls exactly
\* the completed calls: for a stream of multi-call fragments, each entry of
\* the index-to-ToolCall map once.
C27_EstimatorGetsAccumulatedOutput ==
    \A i \in Invocations :
        (handler[i] = "chat" /\ Exhausted(i)
         /\ \A block \in { LastUsageBlock(consumed[i]) } :
               block # 0 => consumed[i][block].usage[1].completion_tokens = 0) =>
            /\ locals[i].full_assistant_content = ContentOf(consumed[i])
            /\ NoLegacyFragments(consumed[i])
                 => locals[i].final_tool_calls
                      = CompletedCalls(locals[i].aggregated_tool_calls)

\* ------------------------------------------------------------------ C30

\* C30 (as claimed): when a chat stream has been pulled to exhaustion,
\* every call of the index-to-ToolCall map, and every call flushed from the
\* legacy buffer, is among the tool calls of the emitted chunks.
C30_CompletedCallsDelivered ==
    \A i \in Invocations :
        (handler[i] = "chat" /\ pc[i] = "done") =>
            LET delivered == ToolCallsOfChunks(emitted[i])
                inChunks(c) == \E k \in 1..Len(delivered) : delivered[k] = c
                calls == CompletedCalls(locals[i].aggregated_tool_calls)
                legacy == locals[i].final_tool_calls
            IN /\ \A k \in 1..Len(calls) : inChunks(calls[k])
               /\ ToolCallChunksOf(consumed[i]) = << >>
                    => \A k \in 1..Len(legacy) : inChunks(legacy[k])

\* ------------------------------------------------------------------ C28

\* The model of the older message-delimiter convention.
OlderConventionModels == { "gpt-3.5-turbo-0301" }

PerMessageSurcharge(m) == IF m \in OlderConventionModels THEN 4 ELSE 3

NameSurcharge(m) == IF m \in OlderConventionModels THEN -1 ELSE 1

\* The message has a name and is not a Tool message.
CarriesName(msg) == Truthy(msg.name) /\ msg.role # "tool"

\* The texts of the parts of type "text", one after the other.
RECURSIVE JoinedText(_)
JoinedText(parts) ==
    IF parts = << >> THEN ""
    ELSE (IF Head(parts).type = "text" THEN Head(parts).data ELSE "")
         \o JoinedText(Tail(parts))

\* The tokens of the values of a message other than its name: role, text
\* and tool_call_id. The text of a list content is that of its text parts
\* for a User message; the list of part objects of another message has no
\* text.
ValueTokens(msg) ==
    Enc(msg.role)
    + Enc(IF msg.parts = None THEN msg.content
          ELSE IF msg.role = "user" THEN JoinedText(msg.parts[1])
          ELSE "")
    + (IF msg.tool_call_id # None THEN Enc(msg.tool_call_id[1]) ELSE 0)

\* What the messages add under the claimed accounting: per message the
\* family's surcharge and the tokens of its values, and for a message that
\* carries a name the tokens of the name and the name surcharge.
RECURSIVE PerMessageAccounting(_, _)
PerMessageAccounting(m, messages) ==
    IF messages = << >> THEN 0
    ELSE LET msg == Head(messages)
         IN PerMessageSurcharge(m) + ValueTokens(msg)
            + (IF CarriesName(msg)
               THEN Enc(msg.name[1]) + NameSurcharge(m) ELSE 0)
            + PerMessageAccounting(m, Tail(messages))

\* C28: the estimate adds the family's per-message surcharge (4 for the
\* older convention, 3 for the current one) once per message, and the name
\* surcharge (-1, +1) once per message that carries a name, never for a
\* message without a name or for a Tool message.
C28_PerMessageAccounting ==
    est.used =>
      \A k \in MessageEstimates :
        ~est.history[k].result.raised =>
          est.history[k].result.value =
            PerMessageAccounting(est.model, est.messages)
            + 3 + NumTokensForTools(est.tools)

\* C28 witness: for the older convention, a user message named "bob"
\* followed by a Tool message named "t" was estimated at
\* (4 + 4 + 2 + 3 - 1) + (4 + 4 + 1 + 1) + 3.
C28_Witness ==
    /\ est.used
    /\ est.model = "gpt-3.5-turbo-0301"
    /\ est.messages
         = << PromptMessage("user", "hi", None, Some("bob"), << >>, None),
              PromptMessage("tool", "r", None, Some("t"), << >>, Some("x")) >>
    /\ est.tools = << >>
    /\ OwnCalls # { }
    /\ \A k \in OwnCalls : est.history[k].result = Ok(25)

\* ------------------------------------------------------------------ C21

\* The usage of a result computed from the usage fields of the responses
\* endpoint.
UsageFromFields(usage) ==
    [prompt_tokens |-> usage.input_tokens,
     completion_tokens |-> usage.output_tokens,
     total_tokens |-> usage.input_tokens + usage.output_tokens]

\* C21: an invocation answered by the responses endpoint returns one single
\* result, whatever the caller's stream flag, without any call of the token
\* estimator; the usage of the result is computed from the usage fields of
\* the answer, and is null when the answer has none.
C21_AlternateEndpointResult ==
    (disp.used /\ RequestsOn("responses") # { } /\ disp.response # None) =>
      /\ disp.pc = "returned"
      /\ disp.outcome = Some([kind |-> "result", error |-> ""])
      /\ disp.estimator_calls = 0
      /\ disp.result # None
      /\ disp.result[1].usage
           = IF disp.response[1].usage = None THEN None
             ELSE Some(UsageFromFields(disp.response[1].usage[1]))

\* C21 witness: a caller asked for a stream, the responses endpoint answered
\* without usage, and invoke returned a single result with usage null.
C21_Witness ==
    /\ disp.used
    /\ disp.stream
    /\ RequestsOn("responses") # { }
    /\ disp.response = Some(ResponseObject(Some("ab"), None))
    /\ disp.result = Some(LLMResult(Some("ab"), << >>, None))

\* ------------------------------------------------------------------ C29

\* The concatenation of the contents of the chunks.
RECURSIVE ContentOfChunks(_)
ContentOfChunks(chunks) ==
    IF chunks = << >> THEN ""
    ELSE Head(chunks).content \o ContentOfChunks(Tail(chunks))

\* C29 (as claimed): when one output was returned as a block result and
\* streamed to exhaustion, the text of the result is the concatenation of
\* the chunks' contents, its tool calls are the tool calls of the chunks,
\* and its usage is the usage of the final chunk.
C29_BlockEquivalentToStream ==
    (disp.used /\ disp.pc = "returned" /\ disp.result # None
     /\ disp.response # None /\ disp.response[1].kind = "chat"
     /\ pc["A"] = "done") =>
        /\ OrEmpty(disp.result[1].content) = ContentOfChunks(emitted["A"])
        /\ disp.result[1].tool_calls = ToolCallsOfChunks(emitted["A"])
        /\ disp.result[1].usage = Last(emitted["A"]).usage

\* ------------------------------------------------------------------ C31

\* C31 (as claimed): when a chat stream has been pulled to exhaustion, the
\* concatenation of the contents of the emitted chunks, in emission order,
\* is the concatenation of the content of the consumed fragments, in
\* arrival order.
C31_NoTextLostOrDuplicated ==
    \A i \in Invocations :
        (handler[i] = "chat" /\ pc[i] = "done") =>
            ContentOfChunks(emitted[i]) = ContentOf(consumed[i])

\* ------------------------------------------------------------------ C32

\* The positions of the fragments that carry a legacy function_call.
FunctionCallPositions(frags) ==
    { k \in 1..Len(frags) :
        frags[k].nchoices = 1 /\ frags[k].function_call # None }

\* C32 (as claimed): when a chat stream has been pulled to exhaustion the
\* legacy function-call buffer is empty; the call opened by a start
\* fragment and grown by continuations has been flushed as one completed
\* call, also when no fragment carried a finish reason; and no call was
\* flushed twice: a stream without multi-call fragments has at most one
\* completed call per function_call fragment.
C32_LegacyBufferEmptyAtEnd ==
    \A i \in Invocations :
        (handler[i] = "chat" /\ pc[i] = "done") =>
            /\ locals[i].delta_assistant_message_function_call_storage = None
            /\ IsLegacyPrefix(consumed[i]) =>
                  locals[i].final_tool_calls =
                      << ToolCall(consumed[i][1].function_call[1].name[1],
                                  "function",
                                  consumed[i][1].function_call[1].name[1],
                                  LegacyArguments(consumed[i])) >>
            /\ ToolCallChunksOf(consumed[i]) = << >> =>
                  Len(locals[i].final_tool_calls)
                      <= Cardinality(FunctionCallPositions(consumed[i]))

\* ------------------------------------------------------------------ C33

\* The last step of invocation i flushed the index-to-ToolCall map: it
\* yielded the terminal tool-call chunk.
MapFlushed(i) ==
    /\ handler[i] = "chat"
    /\ pc[i] = "yielded"
    /\ Last(emitted[i]).finish_reason = Some("tool_calls")

\* C33 (as claimed): when the map is flushed, every index that appears in
\* a consumed multi-call fragment has an entry in the map, and the entry
\* holds all argument text sent for the index, in arrival order.
C33_EveryIndexHasItsEntry ==
    \A i \in Invocations :
        MapFlushed(i) =>
            LET sent == ToolCallChunksOf(consumed[i])
                agg == locals[i].aggregated_tool_calls
            IN \A k \in 1..Len(sent) :
                  /\ HasIndex(agg, sent[k].index)
                  /\ EntryArguments(agg[PosOf(agg, sent[k].index)])
                        = ArgumentsSent(sent, sent[k].index)

\* ------------------------------------------------------------------ C34

\* C34 (as claimed): no fragment makes the chat aggregator raise: whatever
\* optional tool-call or function-call fields are null, the loop goes on.
C34_NullFieldsNeverRaise ==
    \A i \in Invocations : handler[i] = "chat" => pc[i] # "raised"

\* ------------------------------------------------------------------ C35

\* C35 (as claimed): after a chat stream has been pulled to exhaustion,
\* every fragment object has the field values it had on arrival, and a
\* second invocation given the same fragment objects produces the same
\* chunk sequence as the first.
C35_FragmentsReadOnly ==
    /\ pc["A"] = "done" =>
          ObjectsAfter(model["A"], consumed["A"]) = consumed["A"]
    /\ (pc["A"] = "done" /\ pc["B"] \in { "done", "raised" }) =>
          /\ pc["B"] = "done"
          /\ emitted["B"] = emitted["A"]

\* ------------------------------------------------------------------ C36

\* C36 (as claimed): once invoke of a chat model has returned or raised,
\* the caller's parameter mapping has the keys and values it had before
\* the call, and every prompt message of the caller has the content it had
\* before the call.
C36_CallerInputsUnchanged ==
    (disp.used /\ disp.pc \in { "returned", "raised" }
     /\ GetModelMode(FineTuneBase(disp.model)) = "chat") =>
        /\ disp.model_parameters = disp.caller.model_parameters
        /\ disp.prompt_messages = disp.caller.prompt_messages

\* ------------------------------------------------------------------ C37

\* C37 (as claimed): for every model, invoke with stream true returns a
\* lazy sequence of chunks and invoke with stream false returns a single
\* result.
C37_StreamFlagDecidesShape ==
    (disp.used /\ disp.pc = "returned") =>
        disp.outcome = Some([kind |-> IF disp.stream THEN "stream"
                                      ELSE "result",
                             error |-> ""])

====
